---------------------------- MODULE Spec2Model ----------------------------
(***************************************************************************)
(* MuseWeb streaming output sanitizer.                                     *)
(*                                                                         *)
(* Strings are TLA+ strings.  The lexer of SANY gives the backtick a       *)
(* meaning of its own, so the backtick byte of the Go source is written    *)
(* "~" throughout (BT); no input of the model contains a real tilde.       *)
(***************************************************************************)
EXTENDS Integers, Sequences, FiniteSets, TLC

(***************************************************************************)
(* Go's strings package, 0-based like the source.                          *)
(***************************************************************************)
BT == "~"
BT3 == BT \o BT \o BT

Slice(s, i, j) == SubSeq(s, i + 1, j)
SliceFrom(s, i) == SubSeq(s, i + 1, Len(s))
\* The byte at index i, "" past the end.
At(s, i) == IF i < Len(s) THEN SubSeq(s, i + 1, i + 1) ELSE ""

HasPrefix(s, p) == Len(p) <= Len(s) /\ SubSeq(s, 1, Len(p)) = p
HasSuffix(s, p) == Len(p) <= Len(s) /\ SubSeq(s, Len(s) - Len(p) + 1, Len(s)) = p
TrimPrefix(s, p) == IF HasPrefix(s, p) THEN SliceFrom(s, Len(p)) ELSE s
TrimSuffix(s, p) == IF HasSuffix(s, p) THEN Slice(s, 0, Len(s) - Len(p)) ELSE s

RECURSIVE IndexFrom(_, _, _)
IndexFrom(s, sub, i) ==
  IF i + Len(sub) > Len(s) THEN -1
  ELSE IF Slice(s, i, i + Len(sub)) = sub THEN i
  ELSE IndexFrom(s, sub, i + 1)
Index(s, sub) == IndexFrom(s, sub, 0)

RECURSIVE LastIndexFrom(_, _, _)
LastIndexFrom(s, sub, i) ==
  IF i < 0 THEN -1
  ELSE IF Slice(s, i, i + Len(sub)) = sub THEN i
  ELSE LastIndexFrom(s, sub, i - 1)
LastIndex(s, sub) == LastIndexFrom(s, sub, Len(s) - Len(sub))

Contains(s, sub) == Index(s, sub) # -1

RECURSIVE ReplaceAll(_, _, _)
ReplaceAll(s, old, new) ==
  LET i == Index(s, old) IN
  IF i = -1 THEN s
  ELSE Slice(s, 0, i) \o new \o ReplaceAll(SliceFrom(s, i + Len(old)), old, new)

Upper == "ABCDEFGHIJKLMNOPQRSTUVWXYZ"
Lower == "abcdefghijklmnopqrstuvwxyz"
UpperSet == {Slice(Upper, i, i + 1) : i \in 0..25}
LowerSet == {Slice(Lower, i, i + 1) : i \in 0..25}
IsLetter(c) == c \in UpperSet \/ c \in LowerSet
ToLowerChar(c) ==
  IF c \in UpperSet THEN LET i == Index(Upper, c) IN Slice(Lower, i, i + 1) ELSE c
RECURSIVE ToLower(_)
ToLower(s) == IF s = "" THEN "" ELSE ToLowerChar(Head(s)) \o ToLower(Tail(s))

IsSpace(c) == c \in {" ", "\t", "\n", "\r"}
RECURSIVE TrimLeftSpace(_)
TrimLeftSpace(s) ==
  IF s # "" /\ IsSpace(Head(s)) THEN TrimLeftSpace(Tail(s)) ELSE s
RECURSIVE TrimRightSpace(_)
TrimRightSpace(s) ==
  IF s # "" /\ IsSpace(Slice(s, Len(s) - 1, Len(s)))
  THEN TrimRightSpace(Slice(s, 0, Len(s) - 1)) ELSE s
TrimSpace(s) == TrimRightSpace(TrimLeftSpace(s))

\* strings.Split(s, "\n"): always at least one element.
RECURSIVE SplitLines(_)
SplitLines(s) ==
  LET i == Index(s, "\n") IN
  IF i = -1 THEN <<s>>
  ELSE <<Slice(s, 0, i)>> \o SplitLines(SliceFrom(s, i + 1))

\* strings.Join(lines, "\n")
RECURSIVE JoinLines(_)
JoinLines(lines) ==
  IF Len(lines) = 0 THEN ""
  ELSE IF Len(lines) = 1 THEN lines[1]
  ELSE lines[1] \o "\n" \o JoinLines(Tail(lines))

(***************************************************************************)
(* The two regular expressions of CleanupCodeFences.                       *)
(***************************************************************************)
\* Length of the longest prefix of s made of characters other than
\* backtick, newline, '<' and '>'  (the class [^`\n<>]).
RECURSIVE InlineRun(_)
InlineRun(s) ==
  IF s = "" \/ Head(s) \in {BT, "\n", "<", ">"} THEN 0
  ELSE 1 + InlineRun(Tail(s))

\* regexp "`([^`\n<>]+)`" .ReplaceAllString(output, "$1")
RECURSIVE InlineCodeReplace(_)
InlineCodeReplace(s) ==
  IF s = "" THEN ""
  ELSE IF Head(s) = BT
    THEN LET n == InlineRun(Tail(s)) IN
         IF n > 0 /\ At(s, n + 1) = BT
         THEN Slice(s, 1, n + 1) \o InlineCodeReplace(SliceFrom(s, n + 2))
         ELSE BT \o InlineCodeReplace(Tail(s))
  ELSE Head(s) \o InlineCodeReplace(Tail(s))

RECURSIVE NewlineRun(_)
NewlineRun(s) == IF s # "" /\ Head(s) = "\n" THEN 1 + NewlineRun(Tail(s)) ELSE 0

\* regexp `\n{3,}` .ReplaceAllString(output, "\n\n")
RECURSIVE MultipleNewlinesReplace(_)
MultipleNewlinesReplace(s) ==
  IF s = "" THEN ""
  ELSE LET n == NewlineRun(s) IN
       IF n >= 3 THEN "\n\n" \o MultipleNewlinesReplace(SliceFrom(s, n))
       ELSE Head(s) \o MultipleNewlinesReplace(Tail(s))

(***************************************************************************)
(* utils.CleanupCodeFences, step by step.                                  *)
(***************************************************************************)
\* Cut after the last "</html>" (case-insensitive), when there is one.
CutAfterHtmlEnd(output) ==
  LET htmlEndPos == LastIndex(ToLower(output), "</html>") IN
  IF htmlEndPos # -1 THEN Slice(output, 0, htmlEndPos + Len("</html>")) ELSE output

\* Step 0: universal HTML extraction.
ExtractHtml(s) ==
  IF Contains(s, "<!DOCTYPE")
  THEN LET doctypePos == Index(s, "<!DOCTYPE") IN
       CutAfterHtmlEnd(IF doctypePos > 0 THEN SliceFrom(s, doctypePos) ELSE s)
  ELSE IF Contains(s, "<html")
  THEN LET htmlStartPos == Index(s, "<html") IN
       CutAfterHtmlEnd(IF htmlStartPos > 0 THEN SliceFrom(s, htmlStartPos) ELSE s)
  ELSE s

\* Step 1 without its last two calls, the ones for fences without a tag.
RemoveFencesTagged(s) ==
  LET s1 == ReplaceAll(s, BT3 \o "html\n", "")
      s2 == ReplaceAll(s1, BT3 \o "HTML\n", "")
      s3 == ReplaceAll(s2, BT3 \o "html", "")
      s4 == ReplaceAll(s3, BT3 \o "HTML", "")
      s5 == ReplaceAll(s4, BT3 \o "xml\n", "")
      s6 == ReplaceAll(s5, BT3 \o "xml", "")
      s7 == ReplaceAll(s6, BT3 \o "markup\n", "")
  IN ReplaceAll(s7, BT3 \o "markup", "")

\* Step 1: the chain of strings.ReplaceAll calls, in source order.
RemoveFences(s) ==
  LET s1 == ReplaceAll(s, BT3 \o "html\n", "")
      s2 == ReplaceAll(s1, BT3 \o "HTML\n", "")
      s3 == ReplaceAll(s2, BT3 \o "html", "")
      s4 == ReplaceAll(s3, BT3 \o "HTML", "")
      s5 == ReplaceAll(s4, BT3 \o "xml\n", "")
      s6 == ReplaceAll(s5, BT3 \o "xml", "")
      s7 == ReplaceAll(s6, BT3 \o "markup\n", "")
      s8 == ReplaceAll(s7, BT3 \o "markup", "")
      s9 == ReplaceAll(s8, BT3 \o "\n", "")
  IN ReplaceAll(s9, BT3, "")

\* Step 2 with the first line tested for containing "html" instead of being
\* exactly "html".
RemoveLineMentioningHtml(s) ==
  LET lines == SplitLines(s)
      firstLine == TrimSpace(lines[1])
  IN IF Contains(firstLine, "html") \/ Contains(firstLine, "HTML")
     THEN JoinLines(Tail(lines)) ELSE s

\* Step 2: orphaned "html" first line.
RemoveOrphanHtmlLine(s) ==
  LET lines == SplitLines(s)
      firstLine == TrimSpace(lines[1])
  IN IF firstLine = "html" \/ firstLine = "HTML" THEN JoinLines(Tail(lines)) ELSE s

\* Step 3: inline code backticks.
RemoveInlineCode(s) ==
  IF Contains(s, BT) /\ ~Contains(s, BT3) THEN InlineCodeReplace(s) ELSE s

\* Step 4: excessive newlines.
CollapseNewlines(s) ==
  IF Contains(s, "\n\n\n") THEN MultipleNewlinesReplace(s) ELSE s

\* Step 5: trailing backticks.
StripTrailingBackticks(s) ==
  LET t == TrimSpace(s) IN
  IF HasSuffix(t, BT3) THEN TrimSpace(TrimSuffix(t, BT3))
  ELSE IF HasSuffix(t, BT) THEN TrimSpace(TrimSuffix(t, BT))
  ELSE t

\* Step 7: drop leading and trailing blank lines.
RECURSIVE DropLeadingBlank(_)
DropLeadingBlank(lines) ==
  IF Len(lines) > 0 /\ TrimSpace(lines[1]) = "" THEN DropLeadingBlank(Tail(lines)) ELSE lines
RECURSIVE DropTrailingBlank(_)
DropTrailingBlank(lines) ==
  IF Len(lines) > 0 /\ TrimSpace(lines[Len(lines)]) = ""
  THEN DropTrailingBlank(SubSeq(lines, 1, Len(lines) - 1)) ELSE lines
TrimBlankLines(s) == JoinLines(DropTrailingBlank(DropLeadingBlank(SplitLines(s))))

\* The cleaning steps run on every text, with or without a backtick.
CleanupCodeFencesAlways(s) ==
  TrimBlankLines(StripTrailingBackticks(CollapseNewlines(
    RemoveInlineCode(RemoveOrphanHtmlLine(RemoveFences(ExtractHtml(s)))))))
CleanupCodeFences(s) ==
  LET output == ExtractHtml(s) IN
  IF ~Contains(output, BT) THEN output
  ELSE TrimBlankLines(StripTrailingBackticks(CollapseNewlines(
         RemoveInlineCode(RemoveOrphanHtmlLine(RemoveFences(output))))))

(***************************************************************************)
(* utils.ProcessModelOutput and what it calls.  The inputs of the model    *)
(* carry no think tag and are not JSON objects, so the think-tag regular   *)
(* expressions, ExtractThinking and the json.Unmarshal attempt leave the   *)
(* text alone and are not written out.                                     *)
(***************************************************************************)
RECURSIVE LetterRun(_)
LetterRun(s) == IF s # "" /\ IsLetter(Head(s)) THEN 1 + LetterRun(Tail(s)) ELSE 0

\* codeFenceRE = "```[a-zA-Z]*\n?|```" .ReplaceAllString(s, "")
RECURSIVE CodeFenceREReplace(_)
CodeFenceREReplace(s) ==
  LET i == Index(s, BT3) IN
  IF i = -1 THEN s
  ELSE LET rest == SliceFrom(s, i + 3)
           afterTag == SliceFrom(rest, LetterRun(rest))
       IN Slice(s, 0, i) \o CodeFenceREReplace(TrimPrefix(afterTag, "\n"))

\* utils.IsReasoningModel / utils.IsThinkingEnabledModel: case-insensitive
\* substring match against the configured patterns, or against the
\* hardcoded list when none is configured.
HardcodedPatterns ==
  << "deepseek-r1-distill", "r1-distill", "mercury-coder", "mercury",
     "sonar-reasoning-pro", "sonar-reasoning",
     "gemini-2.5-flash-lite-preview-06-17", "gemini-2.5-flash", "r1-1776",
     "qwen3", "deepseek", "qwen" >>
MatchesAny(modelName, patterns) ==
  \E i \in 1..Len(patterns) : Contains(ToLower(modelName), ToLower(patterns[i]))
IsThinkingEnabledModel(modelName, reasoningModelPatterns) ==
  IF Len(reasoningModelPatterns) > 0
  THEN MatchesAny(modelName, reasoningModelPatterns)
  ELSE MatchesAny(modelName, HardcodedPatterns)
IsReasoningModel(modelName, reasoningPatterns, reasoningModelPatterns) ==
  IF Len(reasoningPatterns) = 0
  THEN IsThinkingEnabledModel(modelName, reasoningModelPatterns)
  ELSE MatchesAny(modelName, reasoningPatterns)

ShouldSanitize(modelName, enableThinking, patterns) ==
  ~(enableThinking /\ IsThinkingEnabledModel(modelName, patterns))

WrapHead ==
  "<!DOCTYPE html>\n<html>\n<head>\n  <meta charset=\"UTF-8\">\n"
  \o "  <meta name=\"viewport\" content=\"width=device-width, initial-scale=1.0\">\n"
  \o "  <title>MuseWeb Response</title>\n  <style>\n"
  \o "    body { font-family: system-ui, -apple-system, BlinkMacSystemFont, 'Segoe UI', Roboto, Oxygen, Ubuntu, Cantarell, 'Open Sans', 'Helvetica Neue', sans-serif; line-height: 1.6; padding: 1rem; max-width: 800px; margin: 0 auto; }\n"
  \o "    pre { background-color: #f5f5f5; padding: 1rem; border-radius: 4px; overflow-x: auto; }\n"
  \o "    code { font-family: monospace; background-color: #f5f5f5; padding: 0.2rem 0.4rem; border-radius: 3px; }\n"
  \o "  </style>\n</head>\n<body>\n"
WrapTail == "\n</body>\n</html>"

SanitizeResponse(s) ==
  LET c1 == RemoveOrphanHtmlLine(s)
      c2 == IF HasPrefix(TrimSpace(c1), "!DOCTYPE") THEN "<" \o TrimSpace(c1)
            ELSE IF HasPrefix(TrimSpace(c1), "html")
                    /\ (Contains(TrimSpace(c1), ">") \/ Contains(TrimSpace(c1), " "))
                 THEN "<" \o TrimSpace(c1)
            ELSE c1
      c3 == IF Contains(c2, "<html") /\ ~Contains(c2, "<!DOCTYPE html>")
               /\ ~HasPrefix(c2, "<!")
            THEN "<!DOCTYPE html>\n" \o c2 ELSE c2
  IN IF ~Contains(c3, "<html") /\ ~Contains(c3, "<body")
        /\ Len(c3) > 0 /\ ~HasPrefix(c3, "<")
     THEN WrapHead \o c3 \o WrapTail
     ELSE c3

ProcessModelOutput(rawOutput, modelName, enableThinking, patterns) ==
  LET cleaned == ReplaceAll(CodeFenceREReplace(CleanupCodeFences(rawOutput)), BT, "") IN
  IF ~ShouldSanitize(modelName, enableThinking, patterns) THEN cleaned
  ELSE SanitizeResponse(cleaned)

(***************************************************************************)
(* encoding/json as the decoder uses it.  A JSON value is a record with a  *)
(* tag t: a string (s), an object (keys k, values e, in the order of the   *)
(* text), an array (elements e), or a number or boolean (its text s) or    *)
(* null.                                                                   *)
(***************************************************************************)
JStr(x) == [t |-> "str", s |-> x, k |-> << >>, e |-> << >>]
JObj(keys, vals) == [t |-> "obj", s |-> "", k |-> keys, e |-> vals]
JArr(elems) == [t |-> "arr", s |-> "", k |-> << >>, e |-> elems]
JLit(tag) == [t |-> tag, s |-> "", k |-> << >>, e |-> << >>]
JNull == JLit("null")

Digits == {"0", "1", "2", "3", "4", "5", "6", "7", "8", "9"}
JSpace == {" ", "\t", "\n", "\r"}
RECURSIVE SkipWs(_, _)
SkipWs(d, p) == IF p < Len(d) /\ At(d, p) \in JSpace THEN SkipWs(d, p + 1) ELSE p
RECURSIVE SkipDigits(_, _)
SkipDigits(d, p) == IF p < Len(d) /\ At(d, p) \in Digits THEN SkipDigits(d, p + 1) ELSE p

\* The result of a parsing step: the value and the index after it.
ParseFail == [ok |-> FALSE, v |-> JNull, p |-> 0]
Parsed(val, next) == [ok |-> TRUE, v |-> val, p |-> next]

\* The character of a \uXXXX escape; the escapes json.Marshal writes are
\* the ones that occur in the frames of the model.
UnicodeEscape(hex) ==
  IF ToLower(hex) = "003c" THEN "<"
  ELSE IF ToLower(hex) = "003e" THEN ">"
  ELSE IF ToLower(hex) = "0026" THEN "&"
  ELSE ""

\* A string literal from the index after its opening quote.  The escapes
\* \b and \f occur in no frame of the model.
RECURSIVE ScanString(_, _, _)
ScanString(d, p, acc) ==
  IF p >= Len(d) THEN ParseFail
  ELSE LET c == At(d, p) IN
       IF c = "\"" THEN Parsed(JStr(acc), p + 1)
       ELSE IF c = "\\"
       THEN LET x == At(d, p + 1) IN
            IF x = "\"" THEN ScanString(d, p + 2, acc \o "\"")
            ELSE IF x = "\\" THEN ScanString(d, p + 2, acc \o "\\")
            ELSE IF x = "/" THEN ScanString(d, p + 2, acc \o "/")
            ELSE IF x = "n" THEN ScanString(d, p + 2, acc \o "\n")
            ELSE IF x = "t" THEN ScanString(d, p + 2, acc \o "\t")
            ELSE IF x = "r" THEN ScanString(d, p + 2, acc \o "\r")
            ELSE IF x = "u" /\ p + 6 <= Len(d) /\ UnicodeEscape(Slice(d, p + 2, p + 6)) # ""
            THEN ScanString(d, p + 6, acc \o UnicodeEscape(Slice(d, p + 2, p + 6)))
            ELSE ParseFail
       ELSE IF c \in {"\n", "\t", "\r"} THEN ParseFail
       ELSE ScanString(d, p + 1, acc \o c)

\* A number: an optional sign and digits (fractions and exponents occur in
\* no frame of the model).
ScanNumber(d, p) ==
  LET q == IF At(d, p) = "-" THEN p + 1 ELSE p
      r == SkipDigits(d, q)
  IN IF r > q THEN Parsed([t |-> "num", s |-> Slice(d, p, r), k |-> << >>, e |-> << >>], r)
     ELSE ParseFail

RECURSIVE ParseValue(_, _), ParseMembers(_, _, _, _, _), ParseElems(_, _, _, _)
\* The value that starts at index p (no white space at p).
ParseValue(d, p) ==
  LET c == At(d, p)
      rest == SliceFrom(d, p)
  IN IF c = "{" THEN ParseMembers(d, SkipWs(d, p + 1), << >>, << >>, FALSE)
     ELSE IF c = "[" THEN ParseElems(d, SkipWs(d, p + 1), << >>, FALSE)
     ELSE IF c = "\"" THEN ScanString(d, p + 1, "")
     ELSE IF HasPrefix(rest, "true")
     THEN Parsed([t |-> "bool", s |-> "true", k |-> << >>, e |-> << >>], p + 4)
     ELSE IF HasPrefix(rest, "false")
     THEN Parsed([t |-> "bool", s |-> "false", k |-> << >>, e |-> << >>], p + 5)
     ELSE IF HasPrefix(rest, "null") THEN Parsed(JNull, p + 4)
     ELSE IF c = "-" \/ c \in Digits THEN ScanNumber(d, p)
     ELSE ParseFail

\* The members of an object from index p; needOne after a comma.
ParseMembers(d, p, keys, vals, needOne) ==
  IF ~needOne /\ At(d, p) = "}" THEN Parsed(JObj(keys, vals), p + 1)
  ELSE IF At(d, p) # "\"" THEN ParseFail
  ELSE LET key == ScanString(d, p + 1, "") IN
       IF ~key.ok THEN ParseFail
       ELSE LET p1 == SkipWs(d, key.p) IN
            IF At(d, p1) # ":" THEN ParseFail
            ELSE LET val == ParseValue(d, SkipWs(d, p1 + 1)) IN
                 IF ~val.ok THEN ParseFail
                 ELSE LET p2 == SkipWs(d, val.p)
                          keys2 == Append(keys, key.v.s)
                          vals2 == Append(vals, val.v)
                      IN IF At(d, p2) = ","
                         THEN ParseMembers(d, SkipWs(d, p2 + 1), keys2, vals2, TRUE)
                         ELSE IF At(d, p2) = "}" THEN Parsed(JObj(keys2, vals2), p2 + 1)
                         ELSE ParseFail

\* The elements of an array from index p.
ParseElems(d, p, elems, needOne) ==
  IF ~needOne /\ At(d, p) = "]" THEN Parsed(JArr(elems), p + 1)
  ELSE LET val == ParseValue(d, p) IN
       IF ~val.ok THEN ParseFail
       ELSE LET p2 == SkipWs(d, val.p)
                elems2 == Append(elems, val.v)
            IN IF At(d, p2) = ","
               THEN ParseElems(d, SkipWs(d, p2 + 1), elems2, TRUE)
               ELSE IF At(d, p2) = "]" THEN Parsed(JArr(elems2), p2 + 1)
               ELSE ParseFail

\* json.Unmarshal's first pass: the text is one JSON value, white space
\* around it allowed.
ParseJSON(data) ==
  LET r == ParseValue(data, SkipWs(data, 0)) IN
  IF r.ok /\ SkipWs(data, r.p) = Len(data) THEN r ELSE ParseFail

(***************************************************************************)
(* Decoding into Go values.                                                *)
(***************************************************************************)
Absent == JLit("absent")
RECURSIVE LastKey(_, _, _)
\* The last member of keys equal to key (0 when there is none), keys
\* compared exactly (a map) or without regard to case (a struct field).
LastKey(keys, key, fold) ==
  IF Len(keys) = 0 THEN 0
  ELSE LET k == keys[Len(keys)] IN
       IF k = key \/ (fold /\ ToLower(k) = ToLower(key)) THEN Len(keys)
       ELSE LastKey(SubSeq(keys, 1, Len(keys) - 1), key, fold)

\* m[key] of a map[string]interface{} decoded from v.
Get(v, key) ==
  IF v.t # "obj" THEN Absent
  ELSE LET i == LastKey(v.k, key, FALSE) IN IF i = 0 THEN Absent ELSE v.e[i]
\* The member json.Unmarshal stores into the struct field tagged name.
Field(v, name) ==
  IF v.t # "obj" THEN Absent
  ELSE LET i == LastKey(v.k, name, TRUE) IN IF i = 0 THEN Absent ELSE v.e[i]
Elems(v) == IF v.t = "arr" THEN v.e ELSE << >>
StrOf(v) == IF v.t = "str" THEN v.s ELSE ""
\* An UnmarshalTypeError: the value cannot be stored in a target of kind
\* tag (null and a missing member leave the target at its zero value).
Mismatch(v, tag) == v.t \notin {"absent", "null", tag}

\* interface.go:296-305  the nested (Gemini) struct: does Unmarshal fail?
GeminiErr(v) ==
  \/ Mismatch(v, "obj")
  \/ LET cands == Field(v, "candidates") IN
     \/ Mismatch(cands, "arr")
     \/ \E i \in 1..Len(Elems(cands)) :
          LET cand == Elems(cands)[i]
              cont == Field(cand, "content")
              parts == Field(cont, "parts")
          IN \/ Mismatch(cand, "obj")
             \/ Mismatch(cont, "obj")
             \/ Mismatch(parts, "arr")
             \/ \E j \in 1..Len(Elems(parts)) :
                  \/ Mismatch(Elems(parts)[j], "obj")
                  \/ Mismatch(Field(Elems(parts)[j], "text"), "str")
\* interface.go:307-308  Candidates[0].Content.Parts[0].Text
GeminiText(v) ==
  LET cands == Elems(Field(v, "candidates")) IN
  IF Len(cands) = 0 THEN ""
  ELSE LET parts == Elems(Field(Field(cands[1], "content"), "parts")) IN
       IF Len(parts) = 0 THEN "" ELSE StrOf(Field(parts[1], "text"))

\* interface.go:316-334  the same path through a map[string]interface{}
\* (taken only in debug mode, after the struct decoding failed).
AltGeminiText(v) ==
  LET cands == Get(v, "candidates") IN
  IF cands.t # "arr" \/ Len(cands.e) = 0 THEN ""
  ELSE LET parts == Get(Get(cands.e[1], "content"), "parts") IN
       IF parts.t # "arr" \/ Len(parts.e) = 0 THEN ""
       ELSE StrOf(Get(parts.e[1], "text"))

\* interface.go:339-346  the flat (OpenAI) struct.
OpenAIErr(v) ==
  \/ Mismatch(v, "obj")
  \/ LET choices == Field(v, "choices") IN
     \/ Mismatch(choices, "arr")
     \/ \E i \in 1..Len(Elems(choices)) :
          LET choice == Elems(choices)[i]
              delta == Field(choice, "delta")
          IN \/ Mismatch(choice, "obj")
             \/ Mismatch(delta, "obj")
             \/ Mismatch(Field(delta, "content"), "str")
OpenAIText(v) ==
  LET choices == Elems(Field(v, "choices")) IN
  IF Len(choices) = 0 THEN ""
  ELSE StrOf(Field(Field(choices[1], "delta"), "content"))

\* The two shapes tried in the other order.
DecodeContentFlatFirst(data, debug) ==
  CHOOSE content \in
    { LET flat == IF pj.ok /\ ~OpenAIErr(pj.v) THEN OpenAIText(pj.v) ELSE ""
      IN IF flat # "" THEN flat
         ELSE IF pj.ok /\ ~GeminiErr(pj.v) THEN GeminiText(pj.v)
         ELSE IF debug /\ pj.ok THEN AltGeminiText(pj.v)
         ELSE "" : pj \in {ParseJSON(data)} } : TRUE

\* interface.go:292-356  the content the read loop keeps for a data line:
\* the nested shape first, then the flat shape.
DecodeContent(data, debug) ==
  CHOOSE content \in
    { LET nested == IF pj.ok /\ ~GeminiErr(pj.v) THEN GeminiText(pj.v)
                    ELSE IF debug /\ pj.ok THEN AltGeminiText(pj.v)
                    ELSE ""
      IN IF nested # "" THEN nested
         ELSE IF pj.ok /\ ~OpenAIErr(pj.v) THEN OpenAIText(pj.v)
         ELSE "" : pj \in {ParseJSON(data)} } : TRUE

(***************************************************************************)
(* utils.ExtractContentFromResponse and extractTextFromMap.                *)
(***************************************************************************)
\* The bytes that occur in object keys, in increasing order.
ByteOrder == "0123456789ABCDEFGHIJKLMNOPQRSTUVWXYZ_abcdefghijklmnopqrstuvwxyz"
RECURSIVE StrLess(_, _)
StrLess(a, b) ==
  IF b = "" THEN FALSE
  ELSE IF a = "" THEN TRUE
  ELSE IF At(a, 0) = At(b, 0) THEN StrLess(SliceFrom(a, 1), SliceFrom(b, 1))
  ELSE Index(ByteOrder, At(a, 0)) < Index(ByteOrder, At(b, 0))

\* json.Marshal of a string: quoted, with Go's escapes.
MarshalString(x) ==
  LET e1 == ReplaceAll(x, "\\", "\\\\")
      e2 == ReplaceAll(e1, "\"", "\\\"")
      e3 == ReplaceAll(e2, "\n", "\\n")
      e4 == ReplaceAll(e3, "\r", "\\r")
      e5 == ReplaceAll(e4, "\t", "\\t")
      e6 == ReplaceAll(e5, "<", "\\u003c")
      e7 == ReplaceAll(e6, ">", "\\u003e")
      e8 == ReplaceAll(e7, "&", "\\u0026")
  IN "\"" \o e8 \o "\""

\* The keys of a decoded map (the last value of a repeated key is kept), in
\* the sorted order json.Marshal writes them.
MapKeys(v) == { v.k[i] : i \in 1..Len(v.k) }
RECURSIVE SortedKeys(_)
SortedKeys(ks) ==
  IF ks = {} THEN << >>
  ELSE LET least == CHOOSE x \in ks : \A y \in ks \ {x} : StrLess(x, y) IN
       << least >> \o SortedKeys(ks \ {least})

RECURSIVE Marshal(_), MarshalMembers(_, _), MarshalElems(_)
\* json.Marshal of an interface{} value decoded from JSON.
Marshal(v) ==
  IF v.t = "str" THEN MarshalString(v.s)
  ELSE IF v.t \in {"num", "bool"} THEN v.s
  ELSE IF v.t = "arr" THEN "[" \o MarshalElems(v.e) \o "]"
  ELSE IF v.t = "obj" THEN "{" \o MarshalMembers(v, SortedKeys(MapKeys(v))) \o "}"
  ELSE "null"
MarshalMembers(v, ks) ==
  IF Len(ks) = 0 THEN ""
  ELSE MarshalString(Head(ks)) \o ":" \o Marshal(Get(v, Head(ks)))
       \o (IF Len(ks) > 1 THEN "," ELSE "") \o MarshalMembers(v, Tail(ks))
MarshalElems(es) ==
  IF Len(es) = 0 THEN ""
  ELSE Marshal(Head(es)) \o (IF Len(es) > 1 THEN "," ELSE "") \o MarshalElems(Tail(es))

\* regexp "<key>"\s*:\s*"(.*?)" : the first submatch of the leftmost match,
\* found |-> FALSE when there is no match.
RegexSpace == {" ", "\t", "\n", "\f", "\r"}
RECURSIVE SkipRegexSpace(_, _)
SkipRegexSpace(x, p) ==
  IF p < Len(x) /\ At(x, p) \in RegexSpace THEN SkipRegexSpace(x, p + 1) ELSE p
RECURSIVE QuotedValueFrom(_, _, _)
QuotedValueFrom(x, key, from) ==
  LET quoted == "\"" \o key \o "\""
      i == IndexFrom(x, quoted, from)
  IN IF i = -1 THEN [found |-> FALSE, text |-> ""]
     ELSE LET p1 == SkipRegexSpace(x, i + Len(quoted))
              p2 == SkipRegexSpace(x, p1 + 1)
              close == IndexFrom(x, "\"", p2 + 1)
          IN IF At(x, p1) = ":" /\ At(x, p2) = "\"" /\ close # -1
                /\ ~Contains(Slice(x, p2 + 1, close), "\n")
             THEN [found |-> TRUE, text |-> Slice(x, p2 + 1, close)]
             ELSE QuotedValueFrom(x, key, i + 1)
QuotedValue(x, key) == QuotedValueFrom(x, key, 0)

\* response_parser.go:66-86 and 93-107  text, then parts[0], of an object.
\* found |-> FALSE when neither is there.
TextOrParts(obj) ==
  LET text == Get(obj, "text")
      parts == Get(obj, "parts")
  IN IF text.t = "str" THEN [found |-> TRUE, text |-> text.s]
     ELSE IF parts.t = "arr" /\ Len(parts.e) > 0 /\ parts.e[1].t = "str"
     THEN [found |-> TRUE, text |-> parts.e[1].s]
     ELSE IF parts.t = "arr" /\ Len(parts.e) > 0 /\ Get(parts.e[1], "text").t = "str"
     THEN [found |-> TRUE, text |-> Get(parts.e[1], "text").s]
     ELSE [found |-> FALSE, text |-> ""]

\* response_parser.go:110-133  the String field found in the marshalled
\* content, unescaped.
StringFieldOfMarshalled(content) ==
  LET m == QuotedValue(Marshal(content), "String")
      u1 == ReplaceAll(m.text, "\\\"", "\"")
      u2 == ReplaceAll(u1, "\\\\", "\\")
      u3 == ReplaceAll(u2, "\\n", "\n")
      u4 == ReplaceAll(u3, "\\t", "\t")
      u5 == ReplaceAll(u4, "\\r", "\r")
      u6 == ReplaceAll(u5, "\\u003c", "<")
      u7 == ReplaceAll(u6, "\\u003e", ">")
      u8 == ReplaceAll(u7, "\\u0026", "&")
  IN IF m.found THEN u8 ELSE ""

\* response_parser.go:25-138
ExtractContentFromResponse(jsonStr) ==
  CHOOSE extracted \in {
  IF ~pj.ok \/ pj.v.t \notin {"obj", "null"}
  THEN IF Contains(jsonStr, "text") THEN QuotedValue(jsonStr, "text").text ELSE ""
  ELSE LET choices == Get(pj.v, "choices") IN
       IF choices.t # "arr" \/ Len(choices.e) = 0 THEN ""
       ELSE LET choice == choices.e[1]
                delta == Get(choice, "delta")
                message == Get(choice, "message")
                contentContainer == IF delta.t = "obj" THEN delta ELSE message
                content == Get(contentContainer, "content")
            IN IF contentContainer.t # "obj" THEN ""
               ELSE IF content.t = "str" /\ content.s # "" THEN content.s
               ELSE IF content.t = "obj" /\ Get(content, "String").t = "str"
               THEN Get(content, "String").s
               ELSE IF content.t = "obj" /\ TextOrParts(content).found
               THEN TextOrParts(content).text
               ELSE IF TextOrParts(contentContainer).found
               THEN TextOrParts(contentContainer).text
               ELSE StringFieldOfMarshalled(content)
  : pj \in {ParseJSON(jsonStr)} } : TRUE

\* interface.go:55-98  extractTextFromMap.  The second loop ranges over a Go
\* map, whose iteration order is not fixed: the operator gives the set of
\* the results the call can return.
RECURSIVE ExtractTextFromMap(_), ExtractTextFromItems(_)
ExtractTextFromMap(m) ==
  LET hits == SelectSeq(<< "text", "content", "value", "message" >>,
                        LAMBDA key : Get(m, key).t = "str" /\ Get(m, key).s # "")
      ofMember(val) ==
        IF val.t = "obj" THEN ExtractTextFromMap(val)
        ELSE IF val.t = "arr" THEN ExtractTextFromItems(val.e)
        ELSE {""}
      found == UNION { ofMember(Get(m, key)) : key \in MapKeys(m) } \ {""}
  IN IF m.t # "obj" THEN {""}
     ELSE IF Len(hits) > 0 THEN { Get(m, hits[1]).s }
     ELSE IF found = {} THEN {""} ELSE found
ExtractTextFromItems(items) ==
  IF Len(items) = 0 THEN {""}
  ELSE LET item == Head(items)
           here == IF item.t = "obj" THEN ExtractTextFromMap(item)
                   ELSE IF item.t = "str" /\ Len(item.s) > 5 /\ ~HasPrefix(item.s, "http")
                   THEN {item.s}
                   ELSE {""}
       IN IF here # {""} THEN here ELSE ExtractTextFromItems(Tail(items))

\* interface.go:359-383  the values the variable content declared at line
\* 361 can hold at the end of its block: generic extraction, then the deep
\* search, then the raw line.
GenericContent(data) ==
  UNION {
  LET deep == IF pj.ok /\ pj.v.t \in {"obj", "null"} THEN ExtractTextFromMap(pj.v) ELSE {""}
  IN IF generic # "" THEN {generic}
     ELSE { IF c = "" /\ Len(data) > 0 /\ ~HasPrefix(data, "{") THEN data ELSE c : c \in deep }
  : generic \in {ExtractContentFromResponse(data)}, pj \in {ParseJSON(data)} }

(***************************************************************************)
(* Bounds and inputs.                                                      *)
(***************************************************************************)
Sessions == {1, 2}
MaxRequests == 2      \* requests served one after the other by one process

\* A backend stream is a sequence of atoms; a decoded frame carries one or
\* more consecutive atoms, so that frame boundaries fall inside fence
\* tokens and inside the document markers.
DocSplitFence ==
  << "I'll help.\n\n", BT3 \o "htm", "l\n<!DOC",
     "TYPE html><html><body>Hi</body></html>", "\n" \o BT3, "\nEnjoy!" >>
DocPlain == << "<html>", "A</ht", "ml>" >>
DocTrailing == << "<html></html>", "Bye" >>
DocTruncated == << "<!DOCTYPE html>", "<p>" \o BT, "x" \o BT >>
DocProse == << "Sorry", ", no page." >>
\* A preamble cut after two backticks, and a page with a pair of backticks.
DocPairInside ==
  << "Page 1:", BT \o BT, "<html>", "ab" \o BT \o BT \o "\n", "</html>" >>
Docs == {DocSplitFence, DocPlain, DocTrailing, DocTruncated, DocProse, DocPairInside}

RECURSIVE Concat(_)
Concat(seq) == IF Len(seq) = 0 THEN "" ELSE Head(seq) \o Concat(Tail(seq))

\* Data lines of the shapes the decoder knows, carrying the text x.
DecodeTexts == {"abc", "xyz", "", "<html>"}
GeminiFrame(x) ==
  "{\"candidates\":[{\"content\":{\"parts\":[{\"text\":" \o MarshalString(x) \o "}]}}]}"
OpenAIFrame(x) == "{\"choices\":[{\"delta\":{\"content\":" \o MarshalString(x) \o "}}]}"
\* A frame with both shapes: nested text x, flat text y.
BothFrame(x, y) ==
  "{\"candidates\":[{\"content\":{\"parts\":[{\"text\":" \o MarshalString(x)
    \o "}]}}],\"choices\":[{\"delta\":{\"content\":" \o MarshalString(y) \o "}}]}"
\* The non-standard wrapper {"String": ..., "Array": null} as delta content.
WrapperFrame(x) ==
  "{\"choices\":[{\"delta\":{\"content\":{\"String\":" \o MarshalString(x)
    \o ",\"Array\":null}}}]}"
\* A nested frame whose second part is not an object.
BadPartFrame(x) ==
  "{\"candidates\":[{\"content\":{\"parts\":[{\"text\":" \o MarshalString(x)
    \o "},\"oops\"]}}]}"
DeepFrame(x) == "{\"result\":{\"value\":" \o MarshalString(x) \o "}}"
DecodeInputs ==
  { GeminiFrame(x) : x \in DecodeTexts } \cup { OpenAIFrame(x) : x \in DecodeTexts }
  \cup { BothFrame(x, y) : x \in DecodeTexts, y \in DecodeTexts }
  \cup { WrapperFrame(x) : x \in DecodeTexts } \cup { BadPartFrame(x) : x \in DecodeTexts }
  \cup { DeepFrame(x) : x \in DecodeTexts }
  \cup { "{\"x\":1}", "null", "[1]", "hello", "{\"text\": \"cut", "{\"text\": \"cut\"", "" }

\* A backend stream given as its raw lines, each with its line terminator
\* (a last line without terminator is cut off by the end of the stream).
Data(frame) == "data: " \o frame \o "\n"
LineScenario == << Data(GeminiFrame("abc")), "\n", Data(OpenAIFrame("xyz")), "data: [DONE]\n" >>
LineWrapper == << Data(WrapperFrame("<html>")), Data(WrapperFrame("</html>")) >>
LineMixed == << Data(WrapperFrame("A")), Data(OpenAIFrame("B")), Data(DeepFrame("C")) >>
LineRaw == << Data("hello"), ": keep-alive\n", Data("{\"x\":1}"), Data(OpenAIFrame("<html>")) >>
LineAfterDone == << Data(OpenAIFrame("Hi")), "data: [DONE]\n", Data(OpenAIFrame("more")) >>
LineCut == << Data(OpenAIFrame("Hi")), "data: " \o OpenAIFrame("lost") >>
LineBadPart == << Data(BadPartFrame("abc")), Data(DeepFrame("deep")) >>
LineDocs == {LineScenario, LineWrapper, LineMixed, LineRaw, LineAfterDone, LineCut,
             LineBadPart}

(***************************************************************************)
(* State.                                                                  *)
(***************************************************************************)
VARIABLES
  lastSentLength,   \* var lastSentLength int  (package level, one per process)
  pc,               \* per session: "idle", "reading", "done"
  src,              \* per session: atoms the backend has still to send
  frames,           \* per session: decoded frame contents consumed so far
  pendingBuffer,    \* per session: local pendingBuffer strings.Builder
  fullResponse,     \* per session: local fullResponse strings.Builder
  written,          \* per session: segments written to the client while streaming
  flushed,          \* per session: text written by the end-of-stream flush
  result,           \* per session: "none", "nil" (returned nil), "error"
  ended,            \* per session: "none", "eof", "readerr", "writeerr"
  nreq,             \* requests started so far in this process
  startOffset,      \* per session: lastSentLength observed when the request started
  lines,            \* per session: raw lines the backend has still to send
  rawResponseCopy,  \* per session: the raw lines read so far (rawResponseCopy)
  hDebug,           \* per session: h.Debug
  rawWritten        \* per session: texts written by the empty-response handling

lineVars == << lines, rawResponseCopy, hDebug, rawWritten >>
sessVars == << lastSentLength, pc, src, frames, pendingBuffer, fullResponse,
               written, flushed, result, ended, nreq, startOffset, lineVars >>

VARIABLES
  cpc,              \* "input", "once", "twice": applications of CleanupCodeFences
  cx,               \* the input string
  cy,               \* CleanupCodeFences(cx)
  cz                \* CleanupCodeFences(cy)

cleanVars == << cpc, cx, cy, cz >>

VARIABLES
  oPc,              \* OpenAIHandler.StreamResponse: "init", "loop", "post", "done"
  oModelName,       \* h.ModelName
  oThinking,        \* the thinking field of the chat request sent
  oDisableThinking, \* h.DisableThinking
  oPatterns,        \* utils.ReasoningModelPatterns
  oSrc,             \* chunks the backend stream has still to deliver
  oFull,            \* fullResponse
  oStreamed,        \* content received from the stream (fullResponse at loop exit)
  streamingFailed,  \* streamingFailed
  oExit,            \* how the receive loop ended: "none", "eof", "recverr", "writeerr"
  oRetries,         \* calls of tryNonStreamingRequest
  oRetry,           \* what the call returned: [err, resp]
  oWrites,          \* successful writes to the client: [kind, text]
  oRet              \* "none", "nil", "error", "panic", "custom"

stdVars == << oPc, oModelName, oThinking, oDisableThinking, oPatterns, oSrc, oFull, oStreamed,
              streamingFailed, oExit, oRetries, oRetry, oWrites, oRet >>

\* The Ollama path: the two package-level variables of ollama.go and the
\* locals of OllamaHandler.StreamResponse.
VARIABLES ollamaStreamingStarted, ollamaLastSentLength,
          gPc, gSrc, gFrames, gPending, gFull, gWritten, gFlushed, gRet, gReq,
          gModelName, gThinking
ollVars == << ollamaStreamingStarted, ollamaLastSentLength,
              gPc, gSrc, gFrames, gPending, gFull, gWritten, gFlushed, gRet, gReq,
              gModelName, gThinking >>

\* The decoding of one data line, taken alone.
VARIABLES dPc, dData, dDebug, dContent, dGeneric
decVars == << dPc, dData, dDebug, dContent, dGeneric >>

vars == << sessVars, cleanVars, stdVars, ollVars, decVars >>

(***************************************************************************)
(* processStreamingContent: returns the segment to send, the new content   *)
(* of the pending buffer and the new value of lastSentLength.              *)
(***************************************************************************)
\* The sent offset set to the length of the cleaned buffer on every call,
\* also when the cleaned buffer is not longer than what was sent.
processStreamingContentResync(newContent, buf, last) ==
  LET bufferContent == buf \o newContent
      htmlEndPos == Index(ToLower(bufferContent), "</html>")
  IN IF htmlEndPos = -1
     THEN LET cleanedBuffer == CleanupCodeFences(bufferContent) IN
          [out |-> IF Len(cleanedBuffer) > last THEN SliceFrom(cleanedBuffer, last) ELSE "",
           buf |-> bufferContent, last |-> Len(cleanedBuffer)]
     ELSE LET htmlEndFull == htmlEndPos + Len("</html>")
              beforeAndIncluding == Slice(bufferContent, 0, htmlEndFull)
              cleanedContent == CleanupCodeFences(beforeAndIncluding)
          IN IF Len(cleanedContent) > last
             THEN [out |-> SliceFrom(cleanedContent, last), buf |-> "", last |-> 0]
             ELSE [out |-> "", buf |-> "", last |-> 0]
processStreamingContent(newContent, buf, last) ==
  LET bufferContent == buf \o newContent
      htmlEndPos == Index(ToLower(bufferContent), "</html>")
  IN IF htmlEndPos = -1
     THEN LET cleanedBuffer == CleanupCodeFences(bufferContent) IN
          IF Len(cleanedBuffer) > last
          THEN [out |-> SliceFrom(cleanedBuffer, last), buf |-> bufferContent,
                last |-> Len(cleanedBuffer)]
          ELSE [out |-> "", buf |-> bufferContent, last |-> last]
     ELSE LET htmlEndFull == htmlEndPos + Len("</html>")
              beforeAndIncluding == Slice(bufferContent, 0, htmlEndFull)
              cleanedContent == CleanupCodeFences(beforeAndIncluding)
          IN IF Len(cleanedContent) > last
             THEN [out |-> SliceFrom(cleanedContent, last), buf |-> "", last |-> 0]
             ELSE [out |-> "", buf |-> "", last |-> 0]

\* End-of-stream flush of handleWithCustomRequest: the text it writes
\* ("" when it writes nothing).
FinalPending(buf) ==
  IF Len(buf) > 0
  THEN LET f1 == TrimSpace(CleanupCodeFences(buf)) IN
       IF HasSuffix(f1, BT3) THEN TrimSpace(TrimSuffix(f1, BT3)) ELSE f1
  ELSE ""

(***************************************************************************)
(* handleWithCustomRequest, one action per suspension point.               *)
(***************************************************************************)
InitSessions ==
  /\ lastSentLength = 0
  /\ pc = [s \in Sessions |-> "idle"]
  /\ src = [s \in Sessions |-> << >>]
  /\ frames = [s \in Sessions |-> << >>]
  /\ pendingBuffer = [s \in Sessions |-> ""]
  /\ fullResponse = [s \in Sessions |-> ""]
  /\ written = [s \in Sessions |-> << >>]
  /\ flushed = [s \in Sessions |-> ""]
  /\ result = [s \in Sessions |-> "none"]
  /\ ended = [s \in Sessions |-> "none"]
  /\ nreq = 0
  /\ startOffset = [s \in Sessions |-> 0]
  /\ lines = [s \in Sessions |-> << >>]
  /\ rawResponseCopy = [s \in Sessions |-> << >>]
  /\ hDebug = [s \in Sessions |-> FALSE]
  /\ rawWritten = [s \in Sessions |-> << >>]

\* A request arrives: the handler declares its locals; nothing touches the
\* package-level lastSentLength.
BeginRequest(s, atoms, ls, debug) ==
  /\ pc[s] \in {"idle", "done"}
  /\ nreq < MaxRequests
  /\ src' = [src EXCEPT ![s] = atoms]
  /\ lines' = [lines EXCEPT ![s] = ls]
  /\ hDebug' = [hDebug EXCEPT ![s] = debug]
  /\ rawResponseCopy' = [rawResponseCopy EXCEPT ![s] = << >>]
  /\ rawWritten' = [rawWritten EXCEPT ![s] = << >>]
  /\ pc' = [pc EXCEPT ![s] = "reading"]
  /\ frames' = [frames EXCEPT ![s] = << >>]
  /\ pendingBuffer' = [pendingBuffer EXCEPT ![s] = ""]
  /\ fullResponse' = [fullResponse EXCEPT ![s] = ""]
  /\ written' = [written EXCEPT ![s] = << >>]
  /\ flushed' = [flushed EXCEPT ![s] = ""]
  /\ result' = [result EXCEPT ![s] = "none"]
  /\ ended' = [ended EXCEPT ![s] = "none"]
  /\ nreq' = nreq + 1
  /\ startOffset' = [startOffset EXCEPT ![s] = lastSentLength]
  /\ UNCHANGED lastSentLength
  /\ UNCHANGED << cleanVars, stdVars, ollVars, decVars >>

\* A request whose stream is given by the contents of its frames.
StartRequest(s, docs) == \E d \in docs : BeginRequest(s, d, << >>, FALSE)
\* A request whose stream is given line by line.
StartLineRequest(s) ==
  \E d \in LineDocs, debug \in BOOLEAN : BeginRequest(s, << >>, d, debug)

\* One iteration of the read loop on a frame with non-empty content, the
\* client write succeeding (or nothing to write).
ReadFrame(s) ==
  /\ pc[s] = "reading"
  /\ \E k \in 1..Len(src[s]) :
       LET content == Concat(SubSeq(src[s], 1, k))
           r == processStreamingContent(content, pendingBuffer[s], lastSentLength)
       IN /\ src' = [src EXCEPT ![s] = SubSeq(src[s], k + 1, Len(src[s]))]
          /\ frames' = [frames EXCEPT ![s] = Append(frames[s], content)]
          /\ fullResponse' = [fullResponse EXCEPT ![s] = fullResponse[s] \o content]
          /\ pendingBuffer' = [pendingBuffer EXCEPT ![s] = r.buf]
          /\ lastSentLength' = r.last
          /\ written' = [written EXCEPT ![s] =
                           IF r.out # "" THEN Append(written[s], r.out) ELSE written[s]]
  /\ UNCHANGED << pc, flushed, result, ended, nreq, startOffset, lineVars >>
  /\ UNCHANGED << cleanVars, stdVars, ollVars, decVars >>

\* Same iteration, io.WriteString failing: return "client disconnected".
ReadFrameWriteFails(s) ==
  /\ pc[s] = "reading"
  /\ \E k \in 1..Len(src[s]) :
       LET content == Concat(SubSeq(src[s], 1, k))
           r == processStreamingContent(content, pendingBuffer[s], lastSentLength)
       IN /\ r.out # ""
          /\ src' = [src EXCEPT ![s] = SubSeq(src[s], k + 1, Len(src[s]))]
          /\ frames' = [frames EXCEPT ![s] = Append(frames[s], content)]
          /\ fullResponse' = [fullResponse EXCEPT ![s] = fullResponse[s] \o content]
          /\ pendingBuffer' = [pendingBuffer EXCEPT ![s] = r.buf]
          /\ lastSentLength' = r.last
  /\ pc' = [pc EXCEPT ![s] = "done"]
  /\ result' = [result EXCEPT ![s] = "error"]
  /\ ended' = [ended EXCEPT ![s] = "writeerr"]
  /\ UNCHANGED << written, flushed, nreq, startOffset, lineVars >>
  /\ UNCHANGED << cleanVars, stdVars, ollVars, decVars >>

\* reader.ReadString fails with an error other than io.EOF.
ReadError(s) ==
  /\ pc[s] = "reading"
  /\ pc' = [pc EXCEPT ![s] = "done"]
  /\ result' = [result EXCEPT ![s] = "error"]
  /\ ended' = [ended EXCEPT ![s] = "readerr"]
  /\ UNCHANGED << lastSentLength, src, frames, pendingBuffer, fullResponse,
                  written, flushed, nreq, startOffset, lineVars >>
  /\ UNCHANGED << cleanVars, stdVars, ollVars, decVars >>

\* interface.go:264-384  the content the read loop keeps for a raw line.
LineContent(raw, debug) ==
  LET line == TrimSpace(raw) IN
  IF line = "" \/ line = "data: [DONE]" \/ ~HasPrefix(line, "data: ") THEN ""
  ELSE DecodeContent(TrimPrefix(line, "data: "), debug)

\* The read loop giving up on a line it extracts nothing from.
ReadLineFatal(s) ==
  /\ pc[s] = "reading"
  /\ lines[s] # << >> /\ HasSuffix(Head(lines[s]), "\n")
  /\ \E content \in {LineContent(Head(lines[s]), hDebug[s])} :
     LET r == processStreamingContent(content, pendingBuffer[s], lastSentLength)
     IN /\ lines' = [lines EXCEPT ![s] = Tail(lines[s])]
        /\ rawResponseCopy' = [rawResponseCopy EXCEPT ![s] =
                                 Append(rawResponseCopy[s], Head(lines[s]))]
        /\ IF content # ""
           THEN /\ frames' = [frames EXCEPT ![s] = Append(frames[s], content)]
                /\ fullResponse' = [fullResponse EXCEPT ![s] = fullResponse[s] \o content]
                /\ pendingBuffer' = [pendingBuffer EXCEPT ![s] = r.buf]
                /\ lastSentLength' = r.last
                /\ written' = [written EXCEPT ![s] =
                                 IF r.out # "" THEN Append(written[s], r.out) ELSE written[s]]
                /\ UNCHANGED << pc, result, ended >>
           ELSE /\ pc' = [pc EXCEPT ![s] = "done"]
                /\ result' = [result EXCEPT ![s] = "error"]
                /\ ended' = [ended EXCEPT ![s] = "readerr"]
                /\ UNCHANGED << frames, fullResponse, pendingBuffer, lastSentLength, written >>
  /\ UNCHANGED << src, flushed, nreq, startOffset, hDebug, rawWritten >>
  /\ UNCHANGED << cleanVars, stdVars, ollVars, decVars >>
\* One iteration of the read loop on a whole line; the client write, if
\* any, succeeds.
ReadLine(s) ==
  /\ pc[s] = "reading"
  /\ lines[s] # << >> /\ HasSuffix(Head(lines[s]), "\n")
  /\ \E content \in {LineContent(Head(lines[s]), hDebug[s])} :
     LET r == processStreamingContent(content, pendingBuffer[s], lastSentLength)
     IN /\ lines' = [lines EXCEPT ![s] = Tail(lines[s])]
        /\ rawResponseCopy' = [rawResponseCopy EXCEPT ![s] =
                                 Append(rawResponseCopy[s], Head(lines[s]))]
        /\ IF content # ""
           THEN /\ frames' = [frames EXCEPT ![s] = Append(frames[s], content)]
                /\ fullResponse' = [fullResponse EXCEPT ![s] = fullResponse[s] \o content]
                /\ pendingBuffer' = [pendingBuffer EXCEPT ![s] = r.buf]
                /\ lastSentLength' = r.last
                /\ written' = [written EXCEPT ![s] =
                                 IF r.out # "" THEN Append(written[s], r.out) ELSE written[s]]
           ELSE UNCHANGED << frames, fullResponse, pendingBuffer, lastSentLength, written >>
  /\ UNCHANGED << pc, src, flushed, result, ended, nreq, startOffset, hDebug, rawWritten >>
  /\ UNCHANGED << cleanVars, stdVars, ollVars, decVars >>

\* Same iteration, io.WriteString failing: return "client disconnected".
ReadLineWriteFails(s) ==
  /\ pc[s] = "reading"
  /\ lines[s] # << >> /\ HasSuffix(Head(lines[s]), "\n")
  /\ \E content \in {LineContent(Head(lines[s]), hDebug[s])} :
     LET r == processStreamingContent(content, pendingBuffer[s], lastSentLength)
     IN /\ content # "" /\ r.out # ""
        /\ lines' = [lines EXCEPT ![s] = Tail(lines[s])]
        /\ rawResponseCopy' = [rawResponseCopy EXCEPT ![s] =
                                 Append(rawResponseCopy[s], Head(lines[s]))]
        /\ frames' = [frames EXCEPT ![s] = Append(frames[s], content)]
        /\ fullResponse' = [fullResponse EXCEPT ![s] = fullResponse[s] \o content]
        /\ pendingBuffer' = [pendingBuffer EXCEPT ![s] = r.buf]
        /\ lastSentLength' = r.last
  /\ pc' = [pc EXCEPT ![s] = "done"]
  /\ result' = [result EXCEPT ![s] = "error"]
  /\ ended' = [ended EXCEPT ![s] = "writeerr"]
  /\ UNCHANGED << src, written, flushed, nreq, startOffset, hDebug, rawWritten >>
  /\ UNCHANGED << cleanVars, stdVars, ollVars, decVars >>

\* interface.go:466-478  the struct of the empty-response handling.
ReparseErr(v) ==
  \/ Mismatch(v, "obj")
  \/ Mismatch(Field(v, "id"), "str") \/ Mismatch(Field(v, "object"), "str")
  \/ Mismatch(Field(v, "created"), "num") \/ Mismatch(Field(v, "model"), "str")
  \/ LET choices == Field(v, "choices") IN
     \/ Mismatch(choices, "arr")
     \/ \E i \in 1..Len(Elems(choices)) :
          LET choice == Elems(choices)[i]
              delta == Field(choice, "delta")
          IN \/ Mismatch(choice, "obj")
             \/ Mismatch(delta, "obj")
             \/ Mismatch(Field(delta, "content"), "str")
             \/ Mismatch(Field(delta, "role"), "str")
             \/ Mismatch(Field(choice, "index"), "num")
             \/ Mismatch(Field(choice, "finish_reason"), "str")

\* interface.go:457-500  the content taken from one line of the raw copy.
ReparseContent(line) ==
  CHOOSE content \in
    { LET data == TrimPrefix(line, "data: ")
          std == IF pj.ok /\ ~ReparseErr(pj.v) THEN OpenAIText(pj.v) ELSE ""
      IN IF ~HasPrefix(line, "data: ") \/ data = "[DONE]" THEN ""
         ELSE IF std # "" THEN std
         ELSE ExtractContentFromResponse(data)
      : pj \in {ParseJSON(TrimPrefix(line, "data: "))} } : TRUE

\* interface.go:442-518  what the empty-response handling extracts from the
\* raw copy, line by line.
ReparseRaw(raw) ==
  CHOOSE contents \in
    { SelectSeq([i \in 1..Len(rawLines) |-> ReparseContent(rawLines[i])],
                LAMBDA c : c # "") : rawLines \in {SplitLines(raw)} } : TRUE

\* io.EOF (with it, a last line without terminator is dropped): leave the
\* loop, flush the pending buffer, handle an empty response, return nil.
\* Failed writes are only logged, or not looked at.
EndOfStream(s) ==
  /\ pc[s] = "reading"
  /\ src[s] = << >>
  /\ lines[s] = << >> \/ (Len(lines[s]) = 1 /\ ~HasSuffix(Head(lines[s]), "\n"))
  /\ LET raw == rawResponseCopy[s] \o lines[s] IN
     \E extracted \in {IF fullResponse[s] = "" THEN ReparseRaw(Concat(raw)) ELSE << >>} :
        \E writeOk \in BOOLEAN :
          /\ flushed' = [flushed EXCEPT ![s] =
                           IF writeOk THEN FinalPending(pendingBuffer[s]) ELSE ""]
          /\ rawWritten' = [rawWritten EXCEPT ![s] = IF writeOk THEN extracted ELSE << >>]
          /\ fullResponse' = [fullResponse EXCEPT ![s] = fullResponse[s] \o Concat(extracted)]
          /\ rawResponseCopy' = [rawResponseCopy EXCEPT ![s] = raw]
  /\ lines' = [lines EXCEPT ![s] = << >>]
  /\ pc' = [pc EXCEPT ![s] = "done"]
  /\ result' = [result EXCEPT ![s] = "nil"]
  /\ ended' = [ended EXCEPT ![s] = "eof"]
  /\ UNCHANGED << lastSentLength, src, frames, pendingBuffer, written, nreq,
                  startOffset, hDebug >>
  /\ UNCHANGED << cleanVars, stdVars, ollVars, decVars >>

(***************************************************************************)
(* CleanupCodeFences applied to an input, then to its own output.          *)
(***************************************************************************)
MaxPieces == 3
HtmlLang == "<html lang=\"en\">"
DoctypeLower == "<!doctype html>"
Pieces == { BT, BT3, "a", " ", "\n", "html", "<html>", "</html>", "<!DOCTYPE html>",
            HtmlLang, "XML", DoctypeLower }

RECURSIVE PieceStrings(_)
PieceStrings(n) ==
  IF n = 0 THEN {""}
  ELSE LET shorter == PieceStrings(n - 1) IN
       shorter \cup { a \o b : a \in shorter, b \in Pieces }
CleanInputs == PieceStrings(MaxPieces)

CleanOff == cpc = "off" /\ cx = "" /\ cy = "" /\ cz = ""
InitClean == cpc = "input" /\ cx \in CleanInputs /\ cy = "" /\ cz = ""

CleanOnce ==
  /\ cpc = "input"
  /\ cy' = CleanupCodeFences(cx)
  /\ cpc' = "once"
  /\ UNCHANGED << cx, cz, sessVars, stdVars, ollVars, decVars >>

CleanTwice ==
  /\ cpc = "once"
  /\ cz' = CleanupCodeFences(cy)
  /\ cpc' = "twice"
  /\ UNCHANGED << cx, cy, sessVars, stdVars, ollVars, decVars >>

(***************************************************************************)
(* OpenAIHandler.StreamResponse, standard path (openai.go).                *)
(***************************************************************************)
StdModels == {"gpt-4o", "Qwen3-8B"}
StdPatternSets == { << >>, << "GPT" >> }
StdStreams ==
  { << >>, << "" >>, << "Hello" >>,
    << BT3 \o "html\n<html>", "", "A</html>\n" \o BT3 >> }
NoRetry == [err |-> "none", resp |-> ""]
RetryOutcomes ==
  { [err |-> "nil", resp |-> r] :
      r \in {"", "Hi", "<html>A</html>", BT3 \o "html\n<html>A</html>\n" \o BT3} }
  \cup { [err |-> e, resp |-> ""] :
      e \in {"i/o timeout", "unexpected EOF", "status code: 500"} }
DirectOutcomes ==
  { [err |-> "nil", resp |-> "{\"choices\":[{\"message\":{\"content\":\"Hi\"}}]}"],
    [err |-> "nil", resp |-> ""],
    [err |-> "error sending request", resp |-> ""] }

StdOff ==
  /\ oPc = "off" /\ oModelName = "" /\ oDisableThinking = FALSE /\ oPatterns = << >>
  /\ oThinking = "none"
  /\ oSrc = << >> /\ oFull = "" /\ oStreamed = "" /\ streamingFailed = FALSE
  /\ oExit = "none" /\ oRetries = 0 /\ oRetry = NoRetry /\ oWrites = << >>
  /\ oRet = "none"
InitStd ==
  /\ oPc = "init"
  /\ oModelName \in StdModels
  /\ oThinking = "none"
  /\ oDisableThinking \in BOOLEAN
  /\ oPatterns \in StdPatternSets
  /\ oSrc = << >> /\ oFull = "" /\ oStreamed = "" /\ streamingFailed = FALSE
  /\ oExit = "none" /\ oRetries = 0 /\ oRetry = NoRetry /\ oWrites = << >>
  /\ oRet = "none"

\* interface.go:164-176  the thinking member of the payload built by
\* handleWithCustomRequest: false for a reasoning model, absent otherwise.
CustomPayloadThinking(modelName, patterns) ==
  IF IsReasoningModel(modelName, patterns, patterns) THEN "false" ELSE "absent"

\* openai.go:77  the custom request handler is used instead
UsesCustomRequest ==
  ~oDisableThinking /\ IsThinkingEnabledModel(oModelName, oPatterns)

StdDispatchCustom ==
  /\ oPc = "init"
  /\ UsesCustomRequest
  /\ oPc' = "done"
  /\ oRet' = "custom"
  /\ oThinking' = CustomPayloadThinking(oModelName, oPatterns)
  /\ UNCHANGED << oModelName, oDisableThinking, oPatterns, oSrc, oFull, oStreamed,
                  streamingFailed, oExit, oRetries, oRetry, oWrites >>
  /\ UNCHANGED << sessVars, cleanVars, ollVars, decVars >>

StdCreateStream ==
  /\ oPc = "init"
  /\ ~UsesCustomRequest
  /\ oSrc' \in StdStreams
  /\ oPc' = "loop"
  /\ oThinking' = "absent"
  /\ UNCHANGED << oModelName, oDisableThinking, oPatterns, oFull, oStreamed,
                  streamingFailed, oExit, oRetries, oRetry, oWrites, oRet >>
  /\ UNCHANGED << sessVars, cleanVars, ollVars, decVars >>

\* CreateChatCompletionStream fails: tryDirectRequest, whose body is written
\* as it is when it came back without error.
StdCreateStreamFails ==
  /\ oPc = "init"
  /\ ~UsesCustomRequest
  /\ \E d \in DirectOutcomes, writeOk \in BOOLEAN :
       IF d.err = "nil" /\ d.resp # "" /\ writeOk
       THEN /\ oWrites' = Append(oWrites, [kind |-> "direct", text |-> d.resp])
            /\ oRet' = "nil"
       ELSE /\ oWrites' = oWrites
            /\ oRet' = "error"
  /\ oPc' = "done"
  /\ oThinking' = "absent"
  /\ UNCHANGED << oModelName, oDisableThinking, oPatterns, oSrc, oFull, oStreamed,
                  streamingFailed, oExit, oRetries, oRetry >>
  /\ UNCHANGED << sessVars, cleanVars, ollVars, decVars >>

\* stream.Recv returns a chunk with content; the write succeeds.
StdRecvChunk ==
  /\ oPc = "loop"
  /\ oSrc # << >> /\ Head(oSrc) # ""
  /\ oFull' = oFull \o Head(oSrc)
  /\ oWrites' = Append(oWrites, [kind |-> "chunk", text |-> Head(oSrc)])
  /\ oSrc' = Tail(oSrc)
  /\ UNCHANGED << oPc, oModelName, oThinking, oDisableThinking, oPatterns, oStreamed,
                  streamingFailed, oExit, oRetries, oRetry, oRet >>
  /\ UNCHANGED << sessVars, cleanVars, ollVars, decVars >>

\* ... the write fails: break (streamingFailed stays false).
StdRecvChunkWriteFails ==
  /\ oPc = "loop"
  /\ oSrc # << >> /\ Head(oSrc) # ""
  /\ oFull' = oFull \o Head(oSrc)
  /\ oStreamed' = oFull \o Head(oSrc)
  /\ oSrc' = Tail(oSrc)
  /\ oExit' = "writeerr"
  /\ oPc' = "post"
  /\ UNCHANGED << oModelName, oThinking, oDisableThinking, oPatterns, streamingFailed,
                  oRetries, oRetry, oWrites, oRet >>
  /\ UNCHANGED << sessVars, cleanVars, ollVars, decVars >>

\* A chunk with an empty delta, or without choices (the marshalled chunk
\* then has no choice from which ExtractContentFromResponse could read).
StdRecvEmpty ==
  /\ oPc = "loop"
  /\ oSrc # << >> /\ Head(oSrc) = ""
  /\ oSrc' = Tail(oSrc)
  /\ UNCHANGED << oPc, oModelName, oThinking, oDisableThinking, oPatterns, oFull, oStreamed,
                  streamingFailed, oExit, oRetries, oRetry, oWrites, oRet >>
  /\ UNCHANGED << sessVars, cleanVars, ollVars, decVars >>

StdRecvEOF ==
  /\ oPc = "loop"
  /\ oSrc = << >>
  /\ oExit' = "eof"
  /\ oStreamed' = oFull
  /\ oPc' = "post"
  /\ UNCHANGED << oModelName, oThinking, oDisableThinking, oPatterns, oSrc, oFull,
                  streamingFailed, oRetries, oRetry, oWrites, oRet >>
  /\ UNCHANGED << sessVars, cleanVars, ollVars, decVars >>

\* stream.Recv returns an error that is not io.EOF.
StdRecvError ==
  /\ oPc = "loop"
  /\ streamingFailed' = TRUE
  /\ oExit' = "recverr"
  /\ oStreamed' = oFull
  /\ oPc' = "post"
  /\ UNCHANGED << oModelName, oThinking, oDisableThinking, oPatterns, oSrc, oFull,
                  oRetries, oRetry, oWrites, oRet >>
  /\ UNCHANGED << sessVars, cleanVars, ollVars, decVars >>

\* The retry condition with the streamingFailed test dropped.
ShouldRetryAnyExit(failed, full) == Len(full) = 0
\* openai.go:219
ShouldRetry(failed, full) == failed /\ Len(full) = 0

\* The fallback: tryNonStreamingRequest and the handling of what it returns.
\* oRet tells what StreamResponse returns: "nil", "error" (an error the
\* handler builds), "writeerr" (the error of a failed client write) or
\* "panic" (the goroutine panics).
StdRetry ==
  /\ oPc = "post"
  /\ ShouldRetry(streamingFailed, oFull)
  /\ oRetries' = oRetries + 1
  /\ \E o \in RetryOutcomes, writeOk \in BOOLEAN :
       /\ oRetry' = o
       /\ IF o.err = "nil" /\ o.resp # ""
          THEN /\ oFull' = oFull \o o.resp
               /\ IF writeOk
                  THEN /\ oWrites' = Append(oWrites, [kind |-> "fallback", text |-> o.resp])
                       /\ oPc' = "final"
                       /\ oRet' = oRet
                  ELSE /\ oWrites' = oWrites
                       /\ oPc' = "done"
                       /\ oRet' = "writeerr"
          ELSE /\ oFull' = oFull
               /\ oWrites' = oWrites
               /\ IF o.err = "nil"
                  THEN \* fallbackErr.Error() on a nil error
                       oPc' = "done" /\ oRet' = "panic"
                  ELSE IF (Contains(o.err, "i/o timeout") \/ Contains(o.err, "EOF"))
                          /\ Len(oFull) > 0
                  THEN oPc' = "final" /\ oRet' = oRet
                  ELSE oPc' = "done" /\ oRet' = "error"
  /\ UNCHANGED << oModelName, oThinking, oDisableThinking, oPatterns, oSrc, oStreamed,
                  streamingFailed, oExit >>
  /\ UNCHANGED << sessVars, cleanVars, ollVars, decVars >>

StdNoRetry ==
  /\ oPc = "post"
  /\ ~ShouldRetry(streamingFailed, oFull)
  /\ oPc' = "final"
  /\ UNCHANGED << oModelName, oThinking, oDisableThinking, oPatterns, oSrc, oFull, oStreamed,
                  streamingFailed, oExit, oRetries, oRetry, oWrites, oRet >>
  /\ UNCHANGED << sessVars, cleanVars, ollVars, decVars >>

\* openai.go:286-308  final processing of the whole response.
StdFinal ==
  /\ oPc = "final"
  /\ LET finalOutput == ProcessModelOutput(oFull, oModelName, TRUE, oPatterns) IN
     IF ~oDisableThinking /\ ShouldSanitize(oModelName, ~oDisableThinking, oPatterns)
        /\ finalOutput # oFull
     THEN \E writeOk \in BOOLEAN :
            IF writeOk
            THEN /\ oWrites' = Append(oWrites, [kind |-> "final", text |-> finalOutput])
                 /\ oRet' = "nil"
            ELSE /\ oWrites' = oWrites
                 /\ oRet' = "writeerr"
     ELSE /\ oWrites' = oWrites
          /\ oRet' = "nil"
  /\ oPc' = "done"
  /\ UNCHANGED << oModelName, oThinking, oDisableThinking, oPatterns, oSrc, oFull, oStreamed,
                  streamingFailed, oExit, oRetries, oRetry >>
  /\ UNCHANGED << sessVars, cleanVars, ollVars, decVars >>

(***************************************************************************)
(* OllamaHandler.StreamResponse (ollama.go).                               *)
(***************************************************************************)
\* ollama.go:36-96.  Returns the text to send, the pending buffer and the
\* two package-level variables after the call.
processOllamaStreamingContent(newContent, buf, started, last) ==
  LET bufferContent == buf \o newContent IN
  IF ~started
  THEN LET htmlStartPos ==
             IF Contains(bufferContent, "<!DOCTYPE") THEN Index(bufferContent, "<!DOCTYPE")
             ELSE IF Contains(bufferContent, "<html") THEN Index(bufferContent, "<html")
             ELSE -1
       IN IF htmlStartPos # -1
          THEN [out |-> SliceFrom(bufferContent, htmlStartPos), buf |-> bufferContent,
                started |-> TRUE, last |-> Len(bufferContent)]
          ELSE [out |-> "", buf |-> bufferContent, started |-> FALSE, last |-> last]
  ELSE LET htmlEndPos == Index(ToLower(bufferContent), "</html>") IN
       IF htmlEndPos = -1
       THEN IF Len(bufferContent) > last
            THEN [out |-> SliceFrom(bufferContent, last), buf |-> bufferContent,
                  started |-> TRUE, last |-> Len(bufferContent)]
            ELSE [out |-> "", buf |-> bufferContent, started |-> TRUE, last |-> last]
       ELSE LET htmlEndFull == htmlEndPos + Len("</html>") IN
            [out |-> IF htmlEndFull > last THEN Slice(bufferContent, last, htmlEndFull) ELSE "",
             buf |-> "", started |-> FALSE, last |-> 0]

OllOff ==
  /\ ollamaStreamingStarted = FALSE /\ ollamaLastSentLength = 0
  /\ gPc = "off" /\ gSrc = << >> /\ gFrames = << >> /\ gPending = "" /\ gFull = ""
  /\ gWritten = << >> /\ gFlushed = "" /\ gRet = "none" /\ gReq = 0
  /\ gModelName = "" /\ gThinking = "none"
\* The handler is built once, with its model name (interface.go:25-32).
OllModels == {"llama3", "DeepSeek-R1:7b"}
InitOll ==
  /\ ollamaStreamingStarted = FALSE /\ ollamaLastSentLength = 0
  /\ gPc = "idle" /\ gSrc = << >> /\ gFrames = << >> /\ gPending = "" /\ gFull = ""
  /\ gWritten = << >> /\ gFlushed = "" /\ gRet = "none" /\ gReq = 0
  /\ gModelName \in OllModels /\ gThinking = "none"

\* ollama.go:146-154  the thinking member of the api.ChatRequest built by
\* StreamResponse: the request has Model, Messages and Stream only.
OllChatRequestThinking(modelName) == "absent"

\* A request arrives: StreamResponse declares fullResponse and pendingBuffer;
\* the package-level variables are left as the previous request left them.
OllStart ==
  /\ gPc \in {"idle", "done"}
  /\ gReq < MaxRequests
  /\ gSrc' \in Docs
  /\ gPc' = "chat"
  /\ gFrames' = << >> /\ gPending' = "" /\ gFull' = ""
  /\ gWritten' = << >> /\ gFlushed' = "" /\ gRet' = "none"
  /\ gReq' = gReq + 1
  /\ gThinking' = OllChatRequestThinking(gModelName)
  /\ UNCHANGED << ollamaStreamingStarted, ollamaLastSentLength, gModelName >>
  /\ UNCHANGED << sessVars, cleanVars, stdVars, decVars >>

\* callbackFn on a response with content; the write succeeds (or there is
\* nothing to write).
OllCallback ==
  /\ gPc = "chat"
  /\ \E k \in 1..Len(gSrc) :
       LET content == Concat(SubSeq(gSrc, 1, k))
           r == processOllamaStreamingContent(content, gPending,
                   ollamaStreamingStarted, ollamaLastSentLength)
       IN /\ gSrc' = SubSeq(gSrc, k + 1, Len(gSrc))
          /\ gFrames' = Append(gFrames, content)
          /\ gFull' = gFull \o content
          /\ gPending' = r.buf
          /\ ollamaStreamingStarted' = r.started
          /\ ollamaLastSentLength' = r.last
          /\ gWritten' = IF r.out # "" THEN Append(gWritten, r.out) ELSE gWritten
  /\ UNCHANGED << gPc, gFlushed, gRet, gReq, gModelName, gThinking >>
  /\ UNCHANGED << sessVars, cleanVars, stdVars, decVars >>

\* ... the write fails: the callback returns an error, client.Chat returns
\* it and StreamResponse returns "failed to start Ollama chat".
OllCallbackWriteFails ==
  /\ gPc = "chat"
  /\ \E k \in 1..Len(gSrc) :
       LET content == Concat(SubSeq(gSrc, 1, k))
           r == processOllamaStreamingContent(content, gPending,
                   ollamaStreamingStarted, ollamaLastSentLength)
       IN /\ r.out # ""
          /\ gSrc' = SubSeq(gSrc, k + 1, Len(gSrc))
          /\ gFrames' = Append(gFrames, content)
          /\ gFull' = gFull \o content
          /\ gPending' = r.buf
          /\ ollamaStreamingStarted' = r.started
          /\ ollamaLastSentLength' = r.last
  /\ gPc' = "done"
  /\ gRet' = "writeerr"
  /\ UNCHANGED << gWritten, gFlushed, gReq, gModelName, gThinking >>
  /\ UNCHANGED << sessVars, cleanVars, stdVars, decVars >>

\* client.Chat fails (connection, status, decoding of a response).
OllChatError ==
  /\ gPc = "chat"
  /\ gPc' = "done"
  /\ gRet' = "error"
  /\ UNCHANGED << ollamaStreamingStarted, ollamaLastSentLength, gSrc, gFrames,
                  gPending, gFull, gWritten, gFlushed, gReq, gModelName, gThinking >>
  /\ UNCHANGED << sessVars, cleanVars, stdVars, decVars >>

\* client.Chat returns nil: flush the pending buffer, return nil.  A failed
\* write of the flush is only logged.
OllEnd ==
  /\ gPc = "chat"
  /\ gSrc = << >>
  /\ \E writeOk \in BOOLEAN :
       gFlushed' = IF writeOk THEN FinalPending(gPending) ELSE ""
  /\ gPc' = "done"
  /\ gRet' = "nil"
  /\ UNCHANGED << ollamaStreamingStarted, ollamaLastSentLength, gSrc, gFrames,
                  gPending, gFull, gWritten, gReq, gModelName, gThinking >>
  /\ UNCHANGED << sessVars, cleanVars, stdVars, decVars >>

(***************************************************************************)
(* The decoding steps of the custom read loop applied to one data line.    *)
(***************************************************************************)
DecodeOff ==
  dPc = "off" /\ dData = "" /\ dDebug = FALSE /\ dContent = "" /\ dGeneric = {}
InitDecode ==
  dPc = "line" /\ dData \in DecodeInputs /\ dDebug \in BOOLEAN /\ dContent = ""
  /\ dGeneric = {}

\* interface.go:292-356, then the block at 359-383 when nothing was found.
DecodeLine ==
  /\ dPc = "line"
  /\ dContent' = DecodeContent(dData, dDebug)
  /\ dGeneric' = IF DecodeContent(dData, dDebug) = "" THEN GenericContent(dData) ELSE {}
  /\ dPc' = "decoded"
  /\ UNCHANGED << dData, dDebug, sessVars, cleanVars, stdVars, ollVars >>

(***************************************************************************)
(* Specifications.                                                         *)
(***************************************************************************)
\* One process serving its requests one after the other.
Init == InitSessions /\ CleanOff /\ StdOff /\ OllOff /\ DecodeOff
Next ==
  \/ StartRequest(1, Docs)
  \/ StartLineRequest(1)
  \/ ReadFrame(1)
  \/ ReadFrameWriteFails(1)
  \/ ReadLine(1)
  \/ ReadLineWriteFails(1)
  \/ ReadError(1)
  \/ EndOfStream(1)
Spec == Init /\ [][Next]_vars

\* Two requests in flight at once in the same process: every request runs
\* handleWithCustomRequest on its own goroutine, once.
ConcDocs == {DocPlain, DocTrailing, DocProse}
StartConcurrent(s) == pc[s] = "idle" /\ StartRequest(s, ConcDocs)
NextConc ==
  \E s \in Sessions :
    \/ StartConcurrent(s)
    \/ ReadFrame(s)
    \/ ReadFrameWriteFails(s)
    \/ ReadError(s)
    \/ EndOfStream(s)
SpecConc == Init /\ [][NextConc]_vars

\* processStreamingContent reads the package-level lastSentLength twice,
\* once in its test and once in the slice expression, with no lock: with two
\* requests in flight the two reads are a data race and may see different
\* values.  SliceTarget is the text the slice is taken from, for the buffer
\* after pendingBuffer.WriteString.
SliceTarget(bufferContent) ==
  LET htmlEndPos == Index(ToLower(bufferContent), "</html>") IN
  IF htmlEndPos = -1 THEN CleanupCodeFences(bufferContent)
  ELSE CleanupCodeFences(Slice(bufferContent, 0, htmlEndPos + Len("</html>")))

\* interface.go:388-393, 108-120 (142): the frame is appended and the
\* test len(cleaned) > lastSentLength is found true.
RaceGuard(s) ==
  /\ pc[s] = "reading"
  /\ \E k \in 1..Len(src[s]) :
       LET content == Concat(SubSeq(src[s], 1, k))
           bufferContent == pendingBuffer[s] \o content
       IN /\ Len(SliceTarget(bufferContent)) > lastSentLength
          /\ src' = [src EXCEPT ![s] = SubSeq(src[s], k + 1, Len(src[s]))]
          /\ frames' = [frames EXCEPT ![s] = Append(frames[s], content)]
          /\ fullResponse' = [fullResponse EXCEPT ![s] = fullResponse[s] \o content]
          /\ pendingBuffer' = [pendingBuffer EXCEPT ![s] = bufferContent]
  /\ pc' = [pc EXCEPT ![s] = "slicing"]
  /\ UNCHANGED << lastSentLength, written, flushed, result, ended, nreq, startOffset,
                  lineVars >>
  /\ UNCHANGED << cleanVars, stdVars, ollVars, decVars >>

\* interface.go:121-123 (143-153), 396-403: the slice cleaned[lastSentLength:]
\* with the value lastSentLength has now.  An offset past the end of the
\* text is a run-time panic, which ends the request; otherwise the segment
\* is returned and written.
RaceSlice(s) ==
  /\ pc[s] = "slicing"
  /\ LET cleaned == SliceTarget(pendingBuffer[s])
         atEnd == Contains(ToLower(pendingBuffer[s]), "</html>")
     IN IF lastSentLength > Len(cleaned)
        THEN /\ pc' = [pc EXCEPT ![s] = "done"]
             /\ result' = [result EXCEPT ![s] = "panic"]
             /\ ended' = [ended EXCEPT ![s] = "panic"]
             /\ UNCHANGED << lastSentLength, pendingBuffer, written >>
        ELSE /\ pc' = [pc EXCEPT ![s] = "reading"]
             /\ lastSentLength' = IF atEnd THEN 0 ELSE Len(cleaned)
             /\ pendingBuffer' = [pendingBuffer EXCEPT ![s] =
                                    IF atEnd THEN "" ELSE pendingBuffer[s]]
             /\ written' = [written EXCEPT ![s] =
                              IF SliceFrom(cleaned, lastSentLength) # ""
                              THEN Append(written[s], SliceFrom(cleaned, lastSentLength))
                              ELSE written[s]]
             /\ UNCHANGED << result, ended >>
  /\ UNCHANGED << src, frames, fullResponse, flushed, nreq, startOffset, lineVars >>
  /\ UNCHANGED << cleanVars, stdVars, ollVars, decVars >>

\* Two requests in flight, the steps of processStreamingContent interleaved.
NextRace ==
  \E s \in Sessions :
    \/ StartConcurrent(s)
    \/ ReadFrame(s)
    \/ RaceGuard(s)
    \/ RaceSlice(s)
    \/ ReadError(s)
    \/ EndOfStream(s)
SpecRace == Init /\ [][NextRace]_vars

\* CleanupCodeFences as a function.
InitCleanSpec == InitSessions /\ InitClean /\ StdOff /\ OllOff /\ DecodeOff
NextClean == CleanOnce \/ CleanTwice
SpecClean == InitCleanSpec /\ [][NextClean]_vars

\* One request on the standard OpenAI path.
InitStdSpec == InitSessions /\ CleanOff /\ InitStd /\ OllOff /\ DecodeOff
NextStd ==
  \/ StdDispatchCustom
  \/ StdCreateStream
  \/ StdCreateStreamFails
  \/ StdRecvChunk
  \/ StdRecvChunkWriteFails
  \/ StdRecvEmpty
  \/ StdRecvEOF
  \/ StdRecvError
  \/ StdRetry
  \/ StdNoRetry
  \/ StdFinal
SpecStd == InitStdSpec /\ [][NextStd]_vars

\* Requests on the Ollama path, one after the other in one process.
InitOllSpec == InitSessions /\ CleanOff /\ StdOff /\ InitOll /\ DecodeOff
NextOll ==
  \/ OllStart
  \/ OllCallback
  \/ OllCallbackWriteFails
  \/ OllChatError
  \/ OllEnd
SpecOll == InitOllSpec /\ [][NextOll]_vars

\* The decoder as a function of one data line.
InitDecodeSpec == InitSessions /\ CleanOff /\ StdOff /\ OllOff /\ InitDecode
NextDecode == DecodeLine
SpecDecode == InitDecodeSpec /\ [][NextDecode]_vars

(***************************************************************************)
(* Observations used by the properties.                                    *)
(***************************************************************************)
FullInput(s) == Concat(frames[s])
AllWritten(s) == Concat(written[s])
TotalOutput(s) == Concat(written[s]) \o flushed[s]

HasStartMarker(b) == Contains(b, "<!DOCTYPE") \/ Contains(b, "<html")
EndMarkerPos(b) == Index(ToLower(b), "</html>")
UpToEndMarker(b) == Slice(b, 0, EndMarkerPos(b) + Len("</html>"))
AfterEndMarker(b) == SliceFrom(b, EndMarkerPos(b) + Len("</html>"))

RECURSIVE CountOcc(_, _)
CountOcc(b, sub) ==
  LET i == Index(b, sub) IN
  IF i = -1 THEN 0 ELSE 1 + CountOcc(SliceFrom(b, i + Len(sub)), sub)

\* One document start (a doctype and/or one <html) followed by one end marker.
ExactlyOnePair(b) ==
  /\ CountOcc(ToLower(b), "</html>") = 1
  /\ CountOcc(b, "<!DOCTYPE") <= 1
  /\ CountOcc(b, "<html") <= 1
  /\ HasStartMarker(b)
  /\ HasStartMarker(Slice(b, 0, EndMarkerPos(b)))

\* a is obtained from b by deleting characters.
RECURSIVE IsSubsequence(_, _)
IsSubsequence(a, b) ==
  IF a = "" THEN TRUE
  ELSE IF b = "" THEN FALSE
  ELSE IF Head(a) = Head(b) THEN IsSubsequence(Tail(a), Tail(b))
  ELSE IsSubsequence(a, Tail(b))

\* Some character that occurs after the end marker, and nowhere up to it,
\* occurs in the text out.
LeaksPostEnd(out, b) ==
  \E i \in 0..(Len(AfterEndMarker(b)) - 1) :
    LET c == Slice(AfterEndMarker(b), i, i + 1) IN
    ~Contains(UpToEndMarker(b), c) /\ Contains(out, c)

\* The segments a session emits when it is the only user of the offset,
\* starting from offset 0.
RECURSIVE RunAloneFrom(_, _, _, _)
RunAloneFrom(fs, buf, last, outs) ==
  IF Len(fs) = 0 THEN outs
  ELSE LET r == processStreamingContent(Head(fs), buf, last) IN
       RunAloneFrom(Tail(fs), r.buf, r.last,
                    IF r.out # "" THEN Append(outs, r.out) ELSE outs)
RunAlone(fs) == RunAloneFrom(fs, "", 0, << >>)

FinishedCleanly(s) == pc[s] = "done" /\ ended[s] = "eof"
Fresh(s) == pc[s] # "idle" /\ startOffset[s] = 0

(***************************************************************************)
(* Properties.                                                             *)
(***************************************************************************)
\* C1: once the concatenated input holds "</html>", no character that lies
\* after the first "</html>" is written to the client, by a streaming step
\* or by the end-of-stream flush.
C1_NoPostEndOutput ==
  \A s \in Sessions :
    EndMarkerPos(FullInput(s)) # -1 => ~LeaksPostEnd(TotalOutput(s), FullInput(s))

\* C2: on a fresh session whose whole input holds exactly one start/end
\* marker pair, the segments emitted while streaming add up to
\* CleanupCodeFences of the input truncated at the end marker, whatever the
\* frame boundaries.
C2_ChunkingIndependent ==
  \A s \in Sessions :
    (FinishedCleanly(s) /\ Fresh(s) /\ ExactlyOnePair(FullInput(s)))
      => AllWritten(s) = CleanupCodeFences(UpToEndMarker(FullInput(s)))

\* C3: over a whole session (streaming steps, then the flush) nothing is
\* written twice: the sanitizer only deletes characters, so the text
\* written is the input with characters deleted.
C3_NoReEmission ==
  \A s \in Sessions :
    (FinishedCleanly(s) /\ Fresh(s)) => IsSubsequence(TotalOutput(s), FullInput(s))

\* C4: with two requests in flight, each session emits exactly the segments
\* it would emit running alone from offset 0 (a session whose client write
\* failed is left out: its last segment never reached written).
C4_SessionsIsolated ==
  \A s \in Sessions :
    (Fresh(s) /\ ended[s] # "writeerr") => written[s] = RunAlone(frames[s])

\* C5: every request starts with lastSentLength = 0.
C5_StartsAtZero ==
  \A s \in Sessions : pc[s] # "idle" => startOffset[s] = 0

\* C6: the three frames of the split-fence scenario, fed to a fresh session,
\* give exactly the document: no preamble, no backtick, no "Enjoy!".
SplitFenceFrames ==
  << "I'll help.\n\n" \o BT3 \o "htm", "l\n<!DOC",
     "TYPE html><html><body>Hi</body></html>\n" \o BT3 \o "\nEnjoy!" >>
C6_SplitFenceScenario ==
  \A s \in Sessions :
    (FinishedCleanly(s) /\ Fresh(s) /\ frames[s] = SplitFenceFrames)
      => TotalOutput(s) = "<!DOCTYPE html><html><body>Hi</body></html>"

\* C8: while the buffer holds no start marker nothing is emitted, and what
\* is emitted once it is there begins at the marker.
C8_BufferingEmitsNothing ==
  \A s \in Sessions :
    /\ ~HasStartMarker(FullInput(s)) => written[s] = << >>
    /\ (Fresh(s) /\ written[s] # << >>)
         => (HasPrefix(AllWritten(s), "<!DOCTYPE") \/ HasPrefix(AllWritten(s), "<html"))

\* C7: CleanupCodeFences is idempotent.
C7_Idempotent == cpc = "twice" => cz = cy

RetrySucceeded == oRetries = 1 /\ oRetry.err = "nil" /\ oRetry.resp # ""
C10_RetryWrittenSanitizedOnce ==
  (oPc = "done" /\ oRet = "nil" /\ RetrySucceeded)
    => /\ Len(oWrites) = 1
       /\ oWrites[1].text \in
            { CleanupCodeFences(oRetry.resp),
              ProcessModelOutput(oRetry.resp, oModelName, TRUE, oPatterns) }

\* C12: when the stream failed with no content and the retry brings no
\* content either (an error, or an empty response without error),
\* StreamResponse returns a terminal error.
C12_EmptyRetryIsTerminalError ==
  (oPc = "done" /\ oRetries = 1 /\ oRetry.resp = "") => oRet = "error"

\* C13: a transport error after content was emitted ends the session as a
\* success, without fallback: on the standard path no retry is made and
\* the handler returns nil (unless a later client write fails); on the
\* custom path the handler returns nil.
C13_MidStreamErrorIsSuccess ==
  /\ (oExit = "recverr" /\ oStreamed # "")
       => (oRetries = 0 /\ (oPc = "done" => oRet \in {"nil", "writeerr"}))
  /\ \A s \in Sessions :
       (ended[s] = "readerr" /\ written[s] # << >>) => result[s] = "nil"

\* C14: after a failed write of a chunk the standard loop makes no retry,
\* writes nothing more and returns an error.
C14_WriteFailureAborts ==
  (oExit = "writeerr" /\ oPc = "done")
    => /\ oRetries = 0
       /\ oRet \in {"error", "writeerr"}
       /\ \A i \in 1..Len(oWrites) : oWrites[i].kind # "final"

\* C15: every chunk written while streaming has had code-fence removal
\* applied: removing fences from it again changes nothing.
C15_ChunksSanitizedBeforeWrite ==
  \A i \in 1..Len(oWrites) :
    oWrites[i].kind = "chunk" => CodeFenceREReplace(oWrites[i].text) = oWrites[i].text

\* C16: on the standard path content streamed chunk by chunk is not written
\* again by the processing at the end of the stream.
C16_NoSecondWriteAtEnd ==
  (oPc = "done" /\ \E i \in 1..Len(oWrites) : oWrites[i].kind = "chunk")
    => \A i \in 1..Len(oWrites) : oWrites[i].kind # "final"

\* C17: on the Ollama path, once the input of the request holds "</html>",
\* no character that lies after the first "</html>" is written to the
\* client, by the callback or by the end-of-stream flush.
C17_OllamaNoPostEndOutput ==
  EndMarkerPos(Concat(gFrames)) # -1
    => ~LeaksPostEnd(Concat(gWritten) \o gFlushed, Concat(gFrames))

C19_DecoderScenario ==
  dPc = "decoded" =>
    /\ dData = "{\"candidates\":[{\"content\":{\"parts\":[{\"text\":\"abc\"}]}}]}"
         => dContent = "abc"
    /\ dData = "{\"choices\":[{\"delta\":{\"content\":\"xyz\"}}]}" => dContent = "xyz"
    /\ dData = BothFrame("abc", "xyz") => dContent = "abc"
    /\ dData = BothFrame("", "xyz") => dContent = "xyz"
C19_Witness ==
  dPc = "decoded" /\ dData = BothFrame("abc", "xyz") /\ dContent = "abc"

\* The texts the decoding strategies give for one raw line: the nested or
\* flat text, and when both are empty what the generic content-object
\* strategy, the deep search or the raw last resort extract.
Extractable(raw, debug) ==
  UNION { IF decoded # "" THEN {decoded}
          ELSE IF HasPrefix(TrimSpace(raw), "data: ") /\ TrimSpace(raw) # "data: [DONE]"
          THEN GenericContent(TrimPrefix(TrimSpace(raw), "data: "))
          ELSE {""} : decoded \in {LineContent(raw, debug)} }
\* fs is the sequence of the non-empty texts extracted from the lines ls.
RECURSIVE Contributes(_, _, _)
Contributes(ls, fs, debug) ==
  IF ls = << >> THEN fs = << >>
  ELSE \E c \in Extractable(Head(ls), debug) :
         IF c = "" THEN Contributes(Tail(ls), fs, debug)
         ELSE fs # << >> /\ Head(fs) = c /\ Contributes(Tail(ls), Tail(fs), debug)

\* C20: while the custom read loop runs, the texts appended to the session
\* buffer and passed to the sanitizer are, in arrival order, the non-empty
\* texts of the lines read so far, those found only by the generic
\* content-object strategy, the deep search or the raw last resort included.
C20_GenericStrategiesContribute ==
  \A s \in Sessions :
    (pc[s] = "reading" /\ rawResponseCopy[s] # << >>)
      => Contributes(rawResponseCopy[s], frames[s], hDebug[s])

\* C21: a chat request built for a model whose name matches a reasoning
\* pattern carries thinking=false, on the Ollama backend as on the OpenAI
\* backend.
C21_ReasoningModelsThinkingOff ==
  /\ (gThinking # "none" /\ IsReasoningModel(gModelName, << >>, << >>))
       => gThinking = "false"
  /\ (oThinking # "none" /\ IsReasoningModel(oModelName, oPatterns, oPatterns))
       => oThinking = "false"

\* The texts the nested and flat shapes give for the lines ls, in order.
RECURSIVE DecodedContents(_, _)
DecodedContents(ls, debug) ==
  IF ls = << >> THEN << >>
  ELSE LET c == LineContent(Head(ls), debug) IN
       (IF c = "" THEN << >> ELSE << c >>) \o DecodedContents(Tail(ls), debug)

\* C22: reading a line that every extraction strategy fails on leaves the
\* session buffer, the accumulated response, the sent offset and the client
\* output as they were and the read loop running; the lines after it are
\* decoded as usual.
C22_UndecodableFrameNonFatal ==
  /\ [](\A s \in Sessions :
         (pc[s] = "reading" /\ rawResponseCopy[s] # << >>)
           => frames[s] = DecodedContents(rawResponseCopy[s], hDebug[s]))
  /\ [][\A s \in Sessions :
         (/\ pc[s] = "reading"
          /\ lines[s] # << >> /\ HasSuffix(Head(lines[s]), "\n")
          /\ Extractable(Head(lines[s]), hDebug[s]) = {""}
          /\ rawResponseCopy'[s] = Append(rawResponseCopy[s], Head(lines[s])))
         => /\ pendingBuffer'[s] = pendingBuffer[s]
            /\ fullResponse'[s] = fullResponse[s]
            /\ lastSentLength' = lastSentLength
            /\ written'[s] = written[s]
            /\ lines'[s] = Tail(lines[s])
            /\ pc'[s] = "reading" /\ result'[s] = result[s]]_vars
\* A JSON frame nothing is extracted from has been read, and the frame after
\* it has been decoded and appended.
C22_Witness ==
  /\ pc[1] = "reading" /\ Len(rawResponseCopy[1]) >= 2
  /\ LET n == Len(rawResponseCopy[1]) IN
     /\ HasPrefix(rawResponseCopy[1][n - 1], "data: {")
     /\ Extractable(rawResponseCopy[1][n - 1], hDebug[1]) = {""}
     /\ LineContent(rawResponseCopy[1][n], hDebug[1]) # ""
     /\ frames[1] # << >>
     /\ frames[1][Len(frames[1])] = LineContent(rawResponseCopy[1][n], hDebug[1])

\* C23: the output of CleanupCodeFences does not end with a backtick.
C23_NoTrailingBacktick ==
  cpc \in {"once", "twice"} => ~HasSuffix(cy, BT)

\* The lines of a text, trimmed, the blank ones left out.
TrimmedNonBlank(ls) ==
  SelectSeq([i \in 1..Len(ls) |-> TrimSpace(ls[i])], LAMBDA l : l # "")
IsLabelLine(l) == TrimSpace(l) \in {"html", "HTML"}

\* C27: on a buffer without backtick and without document start,
\* CleanupCodeFences removes the first line when it is exactly the bare
\* token html or HTML, and keeps the first line otherwise (lines compared
\* trimmed, blank lines aside).
C27_LabelLineRemovedIffExact ==
  (cpc \in {"once", "twice"} /\ ~Contains(cx, BT) /\ ~HasStartMarker(cx))
    => TrimmedNonBlank(SplitLines(cy)) =
         IF IsLabelLine(SplitLines(cx)[1])
         THEN TrimmedNonBlank(Tail(SplitLines(cx)))
         ELSE TrimmedNonBlank(SplitLines(cx))

\* C28: the output of CleanupCodeFences has no run of three newlines.
C28_NoTripleNewline ==
  cpc \in {"once", "twice"} => ~Contains(cy, "\n\n\n")

\* C29: a fence opener with a language tag of the fixed set, in any letter
\* case, is removed with its tag: a tag that occurs in the input only in the
\* opener does not occur in the output.
FenceTags == {"html", "HTML", "XML"}
C29_FenceTagAnyCase ==
  cpc \in {"once", "twice"} =>
    \A tag \in FenceTags :
      (Contains(cx, BT3 \o tag) /\ CountOcc(cx, tag) = 1) => ~Contains(cy, tag)

\* C30: a buffer with a document start in any letter case is cleaned to a
\* text that begins at a document start.
HasStartMarkerAnyCase(b) ==
  Contains(ToLower(b), "<!doctype") \/ Contains(ToLower(b), "<html")
StartsAtMarker(b) ==
  HasPrefix(ToLower(b), "<!doctype") \/ HasPrefix(ToLower(b), "<html")
C30_StartMarkerAnyCase ==
  (cpc \in {"once", "twice"} /\ HasStartMarkerAnyCase(cx)) => StartsAtMarker(cy)

\* C24: the segments written while the stream is read, put together, hold
\* no triple backtick, however the stream is cut into frames.
C24_NoFenceInSegments ==
  \A s \in Sessions : ~Contains(Concat(written[s]), BT3)

\* A step of session 1 in which processStreamingContent was called, and such
\* a step that found no end marker (it keeps the buffer) and whose write
\* succeeded.
FrameStep == pc[1] = "reading" /\ frames'[1] # frames[1]
StreamingStep == FrameStep /\ pendingBuffer'[1] # "" /\ pc'[1] = "reading"
Emitted == IF written'[1] = written[1] THEN "" ELSE written'[1][Len(written'[1])]

\* C25: with one session, lastSentLength decreases only in a step that finds
\* the end marker.
C25_OffsetMonotonic ==
  [][lastSentLength' >= lastSentLength \/ (FrameStep /\ pendingBuffer'[1] = "")]_vars
\* The offset was kept through a step whose cleaned buffer is shorter.
C25_Witness ==
  /\ pc[1] = "reading" /\ pendingBuffer[1] # "" /\ written[1] # << >>
  /\ Len(frames[1]) >= 2
  /\ Len(CleanupCodeFences(pendingBuffer[1])) < lastSentLength

\* C26: after a step that found no end marker, lastSentLength is the length
\* of the cleaned buffer and the segment written is the cleaned buffer from
\* the previous lastSentLength on.
C26_OffsetIsCleanedLength ==
  [][StreamingStep =>
       LET cleaned == CleanupCodeFences(pendingBuffer'[1]) IN
       /\ lastSentLength' = Len(cleaned)
       /\ Emitted = IF lastSentLength <= Len(cleaned)
                    THEN SliceFrom(cleaned, lastSentLength) ELSE ""]_vars
\* C26, amended: lastSentLength becomes the length of the cleaned buffer
\* when that is larger and is kept otherwise, and the segment written is
\* the cleaned buffer from the previous lastSentLength on (nothing when the
\* cleaned buffer is not longer than that).
C26_OffsetIsLargestCleanedLength ==
  [][StreamingStep =>
       LET cleaned == CleanupCodeFences(pendingBuffer'[1]) IN
       /\ lastSentLength' = IF Len(cleaned) > lastSentLength
                            THEN Len(cleaned) ELSE lastSentLength
       /\ Emitted = IF lastSentLength < Len(cleaned)
                    THEN SliceFrom(cleaned, lastSentLength) ELSE ""]_vars
\* Two steps have written a segment and the offset is the cleaned length.
C26_Witness ==
  /\ pc[1] = "reading" /\ pendingBuffer[1] # "" /\ Len(written[1]) >= 2
  /\ lastSentLength = Len(CleanupCodeFences(pendingBuffer[1]))


\* The sentinel line has been read by session s.
SentinelRead(s) ==
  \E i \in 1..Len(rawResponseCopy[s]) : TrimSpace(rawResponseCopy[s][i]) = "data: [DONE]"

\* C31: the sentinel frame data: [DONE] yields no content and ends the
\* stream: once it has been read, no later iteration of the read loop adds
\* content to the session's accumulated response or buffer, or writes a
\* segment to the client.
C31_SentinelEndsStream ==
  [][\A s \in Sessions :
       (SentinelRead(s) /\ pc[s] = "reading" /\ pc'[s] = "reading")
         => /\ frames'[s] = frames[s]
            /\ fullResponse'[s] = fullResponse[s]
            /\ written'[s] = written[s]]_vars

\* C32: every Ollama request starts in the Buffering phase with sent offset
\* 0, and when a request ends ollamaStreamingStarted is false and
\* ollamaLastSentLength is 0.
C32_OllamaStateResetAtEnd ==
  (gPc = "done" \/ (gPc = "chat" /\ gFrames = << >>))
    => (~ollamaStreamingStarted /\ ollamaLastSentLength = 0)

\* C33: on the Ollama path what was streamed to the client during the
\* request is not written again by the flush of the pending buffer at the
\* end of the stream.
C33_OllamaDocumentWrittenOnce ==
  (gPc = "done" /\ gRet = "nil" /\ gWritten # << >>
     /\ Contains(gPending, Concat(gWritten)))
    => gFlushed = ""

\* C34: everything handleWithCustomRequest writes to the client is a segment
\* returned by processStreamingContent or the cleaned pending buffer of the
\* end-of-stream flush; the handling of an empty response writes no text
\* taken from the captured raw payload.
C34_OnlySanitizedWrites ==
  \A s \in Sessions : pc[s] = "done" => rawWritten[s] = << >>

\* The text has nothing after its last end marker (or has no end marker).
NothingAfterEnd(x) ==
  LET i == LastIndex(ToLower(x), "</html>") IN i = -1 \/ i + Len("</html>") = Len(x)

C36_NoTripleBacktickInOutput ==
  cpc \in {"once", "twice"} => ~Contains(cy, BT3)
C36_Witness ==
  cpc = "once" /\ cx = BT3 \o "a" \o BT3 /\ cy = "a"

\* C37: every slice of the buffer taken at the sent offset is within
\* bounds, also when the process-wide offset was left non-zero by an earlier
\* request or is changed by a request running at the same time: no request
\* ends in a slice-bounds panic.
C37_SlicesWithinBounds ==
  \A s \in Sessions : ended[s] # "panic"

=============================================================================
